---- MODULE Spec2Model ----
(***************************************************************************)
(* Model of the Neotron OS program loader / executor (src/src/program.rs)  *)
(* and of the VGA text console (src/src/vgaconsole.rs).                    *)
(*                                                                         *)
(* Addresses are byte addresses.  Pointers of type *mut u32 move in steps  *)
(* of 4 bytes (WordBytes).                                                 *)
(***************************************************************************)
EXTENDS Integers, Sequences, FiniteSets, TLC

\* ------------------------------------------------------------------------
\* Bounds of the model
\* ------------------------------------------------------------------------
\* word index of the `start` pointer handed to TransientProgramArea::new
TpaStartWord == 1
\* length of the region handed to new(), in words
TpaWords == 3
\* words of RAM that exist above the region (memory the arena must not touch)
SpareWords == 2
\* most program headers one file carries
MaxPh == 2
\* length in bytes of the files on the disk
FileLen == 6
\* most guards one context tries to hold at once on the cell
MaxGuards == 2
\* most writes made through guards of the cell
MaxCellWrites == 3

\* ------------------------------------------------------------------------
\* Program constants
\* ------------------------------------------------------------------------
WordBytes == 4
NumHandles == 8
PT_LOAD == 1
PT_NOTE == 4
\* what RAM holds before anything was loaded
RamInit == 170

TpaStart == TpaStartWord * WordBytes
TpaLength == TpaWords * WordBytes
MemBytes == (TpaStartWord + TpaWords + SpareWords) * WordBytes
RegionEnd == TpaStart + TpaLength

Min(a, b) == IF a < b THEN a ELSE b
Max(a, b) == IF a > b THEN a ELSE b

\* ------------------------------------------------------------------------
\* State
\* ------------------------------------------------------------------------
VARIABLES
    \* TransientProgramArea
    memory_bottom, memory_top, last_entry,
    \* the RAM the arena points into, byte by byte
    ram,
    \* static OPEN_HANDLES
    OPEN_HANDLES,
    \* where the TPA caller is: "idle", "running" (inside the program called
    \* by execute), "loading" (inside the header loop of load_program),
    \* "stolen" (between steal_top and restore_top), "panic"
    tpa_pc,
    \* what the last finished call was and what it returned
    tpa_call, tpa_result,
    \* load_program in progress: e_entry of the file, headers consumed,
    \* whether the header iterator returned an error, whether RAM was written,
    \* whether a byte outside [memory_bottom, memory_top) was written
    load_entry, load_n, load_ph_err, load_modified, load_outside,
    \* steal_top / restore_top: the size stolen, memory_top before the steal
    \* and the pointer steal_top returned
    stolen_size, top_before, stolen_ptr,
    \* whether the program that last returned left a file or the audio device
    \* open
    exec_left_open,
    \* whether load_program has returned Ok since the arena was created and
    \* since the last program returned to execute()
    load_ok_since

tpaVars == <<memory_bottom, memory_top, last_entry, ram, OPEN_HANDLES, tpa_pc,
             tpa_call, tpa_result, load_entry, load_n, load_ph_err,
             load_modified, load_outside, stolen_size, top_before, stolen_ptr,
             exec_left_open, load_ok_since>>

OpenHandle == {"StdIn", "Stdout", "StdErr", "File", "Closed", "Audio"}

AllClosed == [i \in 0..(NumHandles - 1) |-> "Closed"]

\* TransientProgramArea::new on a hosted build (no linker start symbol)
InitTpa ==
    /\ memory_bottom = TpaStart
    /\ memory_top = TpaStart + (TpaLength \div WordBytes) * WordBytes
    /\ last_entry = 0
    /\ ram = [a \in 0..(MemBytes - 1) |-> RamInit]
    /\ OPEN_HANDLES = AllClosed
    /\ tpa_pc = "idle"
    /\ tpa_call = "none"
    /\ tpa_result = "none"
    /\ load_entry = 0
    /\ load_n = 0
    /\ load_ph_err = FALSE
    /\ load_modified = FALSE
    /\ load_outside = FALSE
    /\ stolen_size = 0
    /\ top_before = 0
    /\ stolen_ptr = 0
    /\ exec_left_open = FALSE
    /\ load_ok_since = FALSE

size_words == (memory_top - memory_bottom) \div WordBytes

\* ------------------------------------------------------------------------
\* execute and the handle callbacks
\* ------------------------------------------------------------------------
\* execute(): nothing staged
ExecuteNothingLoaded ==
    /\ tpa_pc = "idle"
    /\ last_entry = 0
    /\ tpa_call' = "execute"
    /\ tpa_result' = "NothingLoaded"
    /\ UNCHANGED <<memory_bottom, memory_top, last_entry, ram, OPEN_HANDLES,
                   tpa_pc, load_entry, load_n, load_ph_err, load_modified,
                   load_outside, stolen_size, top_before, stolen_ptr,
                   exec_left_open, load_ok_since>>

\* the table execute() sets up before it calls the program
DefaultHandlesNoStdErr ==
    [OPEN_HANDLES EXCEPT ![0] = "StdIn", ![1] = "Stdout"]
DefaultHandles ==
    [OPEN_HANDLES EXCEPT ![0] = "StdIn", ![1] = "Stdout", ![2] = "StdErr"]

\* execute(): set up the default handles and call the entry point
ExecuteStart ==
    /\ tpa_pc = "idle"
    /\ last_entry # 0
    /\ OPEN_HANDLES' = DefaultHandles
    /\ tpa_pc' = "running"
    /\ UNCHANGED <<memory_bottom, memory_top, last_entry, ram, tpa_call,
                   tpa_result, load_entry, load_n, load_ph_err, load_modified,
                   load_outside, stolen_size, top_before, stolen_ptr,
                   exec_left_open, load_ok_since>>

\* the table execute() leaves behind once the program returned
CloseAllLeak == [i \in 0..(NumHandles - 1) |->
                    IF i < 3 THEN "Closed" ELSE OPEN_HANDLES[i]]
CloseAll == AllClosed

\* what execute() leaves in last_entry once the program returned
EntryAfterRunKept == last_entry
EntryAfterRun == 0

\* execute(): the program returned `code`
ExecuteReturn(code) ==
    /\ tpa_pc = "running"
    /\ OPEN_HANDLES' = CloseAll
    /\ last_entry' = EntryAfterRun
    /\ load_ok_since' = FALSE
    /\ tpa_pc' = "idle"
    /\ tpa_call' = "execute"
    /\ tpa_result' = IF code = 0 THEN "Ok(0)" ELSE "Ok(n)"
    /\ exec_left_open' = (\E i \in 0..(NumHandles - 1) :
                              OPEN_HANDLES[i] \in {"File", "Audio"})
    /\ UNCHANGED <<memory_bottom, memory_top, ram, load_entry, load_n,
                   load_ph_err, load_modified, load_outside, stolen_size,
                   top_before, stolen_ptr>>

ClosedSlots == {i \in 0..(NumHandles - 1) : OPEN_HANDLES[i] = "Closed"}

\* an allocation that takes the last Closed slot
allocate_handle_last(h) ==
    IF ClosedSlots = {}
    THEN OPEN_HANDLES
    ELSE [OPEN_HANDLES EXCEPT
            ![CHOOSE i \in ClosedSlots : \A j \in ClosedSlots : i >= j] = h]
\* allocate_handle: the first Closed slot takes h
allocate_handle(h) ==
    IF ClosedSlots = {}
    THEN OPEN_HANDLES
    ELSE [OPEN_HANDLES EXCEPT
            ![CHOOSE i \in ClosedSlots : \A j \in ClosedSlots : i <= j] = h]

\* the slot allocate_handle(h) stores into and returns as Ok(idx)
AllocatedSlot(h) ==
    CHOOSE i \in 0..(NumHandles - 1) : allocate_handle(h)[i] # OPEN_HANDLES[i]

\* what api_open returns: the result, and the handle when it is Ok
api_open_results(target) ==
    CASE target = "AUDIO:" ->
            IF ClosedSlots = {} THEN [result |-> "OutOfMemory", fd |-> 255]
            ELSE [result |-> "Ok", fd |-> AllocatedSlot("Audio")]
      [] target = "file" ->
            IF ClosedSlots = {} THEN [result |-> "OutOfMemory", fd |-> 255]
            ELSE [result |-> "Ok", fd |-> AllocatedSlot("File")]
      [] target = "missing" -> [result |-> "InvalidPath", fd |-> 255]
      [] OTHER -> [result |-> "DeviceSpecific", fd |-> 255]

\* api_open called by the running program.  target is what the path names:
\* the audio device, a file that opens, a missing file, a file that fails.
api_open(target) ==
    /\ tpa_pc = "running"
    /\ OPEN_HANDLES' =
          CASE target = "AUDIO:" -> allocate_handle("Audio")
            [] target = "file" -> allocate_handle("File")
            [] OTHER -> OPEN_HANDLES
    /\ UNCHANGED <<memory_bottom, memory_top, last_entry, ram, tpa_pc,
                   tpa_call, tpa_result, load_entry, load_n, load_ph_err,
                   load_modified, load_outside, stolen_size, top_before, stolen_ptr,
                   exec_left_open, load_ok_since>>

\* api_close called by the running program; fd is a u8
api_close(fd) ==
    /\ tpa_pc = "running"
    /\ OPEN_HANDLES' = IF fd < NumHandles
                       THEN [OPEN_HANDLES EXCEPT ![fd] = "Closed"]
                       ELSE OPEN_HANDLES
    /\ UNCHANGED <<memory_bottom, memory_top, last_entry, ram, tpa_pc,
                   tpa_call, tpa_result, load_entry, load_n, load_ph_err,
                   load_modified, load_outside, stolen_size, top_before, stolen_ptr,
                   exec_left_open, load_ok_since>>

\* the slot a handle names: open_handles.get_mut(fd.value() as usize)
SlotKind(fd) == IF fd < NumHandles THEN OPEN_HANDLES[fd] ELSE "None"

\* what api_close can return
api_close_results(fd) ==
    IF SlotKind(fd) = "None" THEN {"BadHandle"} ELSE {"Ok"}

\* what api_write can return: the console always takes the bytes, a file or
\* the audio device may fail
api_write_results(fd) ==
    CASE SlotKind(fd) = "None" -> {"BadHandle"}
      [] SlotKind(fd) \in {"StdErr", "Stdout"} -> {"Ok"}
      [] SlotKind(fd) \in {"File", "Audio"} -> {"Ok", "DeviceSpecific"}
      [] OTHER -> {"BadHandle"}

\* what api_read can return
api_read_results(fd) ==
    CASE SlotKind(fd) = "None" -> {"BadHandle"}
      [] SlotKind(fd) = "StdIn" -> {"Ok", "DeviceSpecific"}
      [] SlotKind(fd) = "File" -> {"Ok", "InvalidArg", "DeviceSpecific"}
      [] SlotKind(fd) = "Audio" -> {"Ok", "DeviceSpecific"}
      [] OTHER -> {"BadHandle"}

\* what api_ioctl can return for a command
api_ioctl_results(fd, command) ==
    CASE SlotKind(fd) = "None" -> {"BadHandle"}
      [] SlotKind(fd) = "Audio" /\ command \in {0, 2} -> {"Ok", "DeviceSpecific"}
      [] SlotKind(fd) = "Audio" /\ command = 1 ->
            {"Ok", "InvalidArg", "DeviceSpecific"}
      [] OTHER -> {"InvalidArg"}

\* api_write, api_read and api_ioctl called by the running program: none of
\* them assigns to a slot of the table
ApiCall ==
    /\ tpa_pc = "running"
    /\ UNCHANGED tpaVars
api_write(fd) == ApiCall
api_read(fd) == ApiCall
api_ioctl(fd, command) == ApiCall

\* api_fstat called by the running program
api_fstat(fd) == ApiCall

\* ------------------------------------------------------------------------
\* The CsRefCell guards taken by execute() and by the handle callbacks
\* ------------------------------------------------------------------------
\* the CsRefCell guards of the call in progress: held, the cells locked by
\* the call chain, oldest first; plan, the lock() calls and guard drops the
\* call still has to make; call, its name; pc, "run" or "panic" once a
\* lock() unwrapped a LockError
VARIABLE lock_chain

\* the statics and fields that are CsRefCells
Cells == {"OPEN_HANDLES", "VGA_CONSOLE", "SERIAL_CONSOLE", "STD_INPUT",
          "volume_manager", "first_volume"}

\* no call in progress, no guard alive
NoChain == [held |-> <<>>, plan |-> <<>>, call |-> "none", pc |-> "run"]

\* cell.lock(), and the drop of the guard it returned
LockOf(cell) == <<"lock", cell>>
DropOf(cell) == <<"drop", cell>>
\* a guard of cell that is alive while body runs
Guarded(cell, body) == <<LockOf(cell)>> \o body \o <<DropOf(cell)>>

\* Filesystem::file_read, file_write, file_length: volume_manager is locked
\* for the call
FilesystemCallLocks == Guarded("volume_manager", <<>>)
\* File::drop: FILESYSTEM.close_raw_file
FileDropLocks == Guarded("volume_manager", <<>>)
\* Filesystem::open_file: both guards live to the end of the function, on
\* every path
OpenFileLocks == Guarded("volume_manager", Guarded("first_volume", <<>>))
\* allocate_handle: the guard is a temporary of the for loop
AllocateLocks == Guarded("OPEN_HANDLES", <<>>)
\* osprintln!: the VGA console, then the serial console
OsPrintLocks == Guarded("VGA_CONSOLE", <<>>) \o Guarded("SERIAL_CONSOLE", <<>>)

\* an execute() that keeps its guard of OPEN_HANDLES while the program runs
ExecuteStartLocksHeld == <<LockOf("OPEN_HANDLES")>>
\* execute(): the default handles are stored under a guard that is dropped
\* before the program is called
ExecuteStartLocks == Guarded("OPEN_HANDLES", <<>>)

\* the files dropped by `*h = OpenHandle::Closed` from slot i on
RECURSIVE DropSlotsFrom(_)
DropSlotsFrom(i) ==
    IF i >= NumHandles THEN <<>>
    ELSE (IF OPEN_HANDLES[i] = "File" THEN FileDropLocks ELSE <<>>)
            \o DropSlotsFrom(i + 1)
\* execute(): every slot is closed under one guard
ExecuteReturnLocks == Guarded("OPEN_HANDLES", DropSlotsFrom(0))

api_open_locks(target) ==
    CASE target = "AUDIO:" -> AllocateLocks
      [] target = "file" ->
            OpenFileLocks \o AllocateLocks
                \o (IF ClosedSlots = {} THEN FileDropLocks ELSE <<>>)
      [] OTHER -> OpenFileLocks

api_close_locks(fd) ==
    Guarded("OPEN_HANDLES",
            IF SlotKind(fd) = "File" THEN FileDropLocks ELSE <<>>)

api_write_locks(fd) ==
    Guarded("OPEN_HANDLES",
            CASE SlotKind(fd) \in {"StdErr", "Stdout"} ->
                    Guarded("VGA_CONSOLE", Guarded("SERIAL_CONSOLE", <<>>))
              [] SlotKind(fd) = "File" -> FilesystemCallLocks
              [] OTHER -> <<>>)

api_read_locks(fd) ==
    Guarded("OPEN_HANDLES",
            CASE SlotKind(fd) = "StdIn" -> Guarded("STD_INPUT", <<>>)
              [] SlotKind(fd) = "File" -> FilesystemCallLocks
              [] OTHER -> <<>>)

api_ioctl_locks(fd, command) ==
    Guarded("OPEN_HANDLES",
            IF SlotKind(fd) = "Audio" /\ command = 1 THEN OsPrintLocks ELSE <<>>)

api_fstat_locks(fd) ==
    Guarded("OPEN_HANDLES",
            IF SlotKind(fd) = "File" THEN FilesystemCallLocks ELSE <<>>)

\* the cells whose `locked` flag is set
HeldCells == {lock_chain.held[i] : i \in DOMAIN lock_chain.held}

\* a call starts once the one before it has returned
Call(name, plan) ==
    /\ lock_chain.pc = "run"
    /\ lock_chain.plan = <<>>
    /\ lock_chain' = [lock_chain EXCEPT !.plan = plan, !.call = name]

\* the call in progress reaches its next lock() (try_lock().unwrap(), which
\* panics when the cell is locked) or the end of a guard's scope
LockStep ==
    /\ lock_chain.pc = "run"
    /\ lock_chain.plan # <<>>
    /\ LET step == Head(lock_chain.plan)
       IN  lock_chain' =
             IF step[1] = "lock"
             THEN IF step[2] \in HeldCells
                  THEN [lock_chain EXCEPT !.pc = "panic"]
                  ELSE [lock_chain EXCEPT !.held = Append(@, step[2]),
                                          !.plan = Tail(@)]
             ELSE [lock_chain EXCEPT
                      !.held = SelectSeq(@, LAMBDA c : c # step[2]),
                      !.plan = Tail(@)]

\* VolumeManager<BiosBlock, BiosTime, 4, 4, 1>: files open at once
MAX_FILES == 4
OpenFiles == Cardinality({i \in 0..(NumHandles - 1) : OPEN_HANDLES[i] = "File"})

\* ------------------------------------------------------------------------
\* load_program
\* ------------------------------------------------------------------------
\* the byte the file holds at offset o (never zero, so a zero-filled byte and
\* a byte copied from the file differ)
FileByte(o) == (o % 3) + 1

\* FileSource: the cache of the source the ELF loader reads through
\* (buffer, offset_cached), and the last read made through it
VARIABLES file_source, read_last

BUFFER_LEN == 128

\* FileSource::new: a zeroed buffer, nothing cached.  offset_cached is the
\* Option<u32> as a set: {} is None, {o} is Some(o)
NewFileSource ==
    [buffer |-> [i \in 0..(BUFFER_LEN - 1) |-> 0], offset_cached |-> {}]

NoRead == [call |-> "none", offset |-> 0, len |-> 0, result |-> "none",
           out |-> <<>>]

\* the caller's out_buffer before the read: len bytes the file never holds
EmptyOut(len) == [i \in 0..(len - 1) |-> 0]

\* uncached_read: seek to offset and read len bytes into the buffer
uncached_read(offset, len) == [i \in 0..(len - 1) |-> FileByte(offset + i)]

\* chunk.len() of chunk k of out_buffer.chunks_mut(BUFFER_LEN)
ChunkLen(k, len) ==
    IF len - k * BUFFER_LEN < BUFFER_LEN THEN len - k * BUFFER_LEN
    ELSE BUFFER_LEN

\* cached_range.contains(o)
CachedRangeContains(fs, o) ==
    \E offset_cached \in fs.offset_cached :
        offset_cached <= o /\ o < offset_cached + BUFFER_LEN

\* chunk.copy_from_slice(&buffer[start..start + clen]) into chunk k of out
CopyChunk(out, k, buffer, start, clen) ==
    [i \in DOMAIN out |->
        IF k * BUFFER_LEN <= i /\ i < k * BUFFER_LEN + clen
        THEN buffer[start + (i - k * BUFFER_LEN)]
        ELSE out[i]]

\* the body of the loop of Source::read from chunk k on: a chunk inside the
\* cached range is copied from the cache and the read returns Ok; any other
\* chunk seeks (`?` returns the error when the file fails: file_ok is
\* FALSE), refills the whole buffer from offset, remembers offset, copies
\* the front of the buffer and advances offset
RECURSIVE ReadChunks(_, _, _, _, _, _)
ReadChunks(fs, offset, out, k, len, file_ok) ==
    IF k * BUFFER_LEN >= len
    THEN [fs |-> fs, out |-> out, result |-> "Ok"]
    ELSE IF /\ CachedRangeContains(fs, offset)
            /\ CachedRangeContains(fs, offset + ChunkLen(k, len) - 1)
    THEN [fs |-> fs,
          out |-> CopyChunk(out, k, fs.buffer,
                            offset - (CHOOSE c \in fs.offset_cached : TRUE),
                            ChunkLen(k, len)),
          result |-> "Ok"]
    ELSE IF ~file_ok
    THEN [fs |-> fs, out |-> out, result |-> "Err"]
    ELSE LET filled == [buffer |-> [i \in 0..(BUFFER_LEN - 1) |->
                                        FileByte(offset + i)],
                        offset_cached |-> {offset}]
         IN  ReadChunks(filled, offset + ChunkLen(k, len),
                        CopyChunk(out, k, filled.buffer, 0, ChunkLen(k, len)),
                        k + 1, len, file_ok)

\* <&FileSource as Source>::read(offset, out_buffer)
SourceRead(offset, len, file_ok) ==
    LET r == ReadChunks(file_source, offset, EmptyOut(len), 0, len, file_ok)
    IN  /\ file_source' = r.fs
        /\ read_last' = [call |-> "read", offset |-> offset, len |-> len,
                         result |-> r.result, out |-> r.out]

\* the program headers a file can carry: loadable segments below, at the
\* bottom of and at the last word of the arena, and one header of another
\* type
ProgramHeaders ==
    [p_type : {PT_LOAD},
     p_vaddr : {memory_bottom - WordBytes, memory_bottom, memory_top - WordBytes},
     p_memsz : {0, WordBytes, 2 * WordBytes},
     p_filesz : {0, 2},
     p_offset : {0, FileLen - 1, FileLen + 1}]
    \cup {[p_type |-> PT_NOTE, p_vaddr |-> memory_bottom, p_memsz |-> WordBytes,
            p_filesz |-> 2, p_offset |-> 0]}

\* no CSI sequence
NoCsi == [params |-> <<>>, action |-> "none"]
NoMode == [kind |-> "none", width |-> 0, height |-> 0]

\* no handle callback
NoApi == [call |-> "none", fd |-> 0, kind |-> "none", result |-> "none"]

\* no program header
NoPh == [p_type |-> 0, p_vaddr |-> 0, p_memsz |-> 0, p_filesz |-> 0,
         p_offset |-> 0]

\* load_program: FILESYSTEM.open_file fails
LoadOpenFail ==
    /\ tpa_pc = "idle"
    /\ tpa_call' = "load"
    /\ tpa_result' = "Filesystem"
    /\ load_ph_err' = FALSE
    /\ load_modified' = FALSE
    /\ load_outside' = FALSE
    /\ UNCHANGED <<memory_bottom, memory_top, last_entry, ram, OPEN_HANDLES,
                   tpa_pc, load_entry, load_n, stolen_size, top_before,
                   stolen_ptr,
                   exec_left_open, load_ok_since>>

\* load_program: Loader::new rejects the file header
LoadHeaderFail ==
    /\ tpa_pc = "idle"
    /\ tpa_call' = "load"
    /\ tpa_result' = "Elf"
    /\ load_ph_err' = FALSE
    /\ load_modified' = FALSE
    /\ load_outside' = FALSE
    /\ UNCHANGED <<memory_bottom, memory_top, last_entry, ram, OPEN_HANDLES,
                   tpa_pc, load_entry, load_n, stolen_size, top_before,
                   stolen_ptr,
                   exec_left_open, load_ok_since>>

\* load_program: file opened, file header parsed, header loop entered
LoadBegin(e_entry) ==
    /\ tpa_pc = "idle"
    /\ tpa_pc' = "loading"
    /\ load_entry' = e_entry
    /\ load_n' = 0
    /\ load_ph_err' = FALSE
    /\ load_modified' = FALSE
    /\ load_outside' = FALSE
    /\ UNCHANGED <<memory_bottom, memory_top, last_entry, ram, OPEN_HANDLES,
                   tpa_call, tpa_result, stolen_size, top_before, stolen_ptr,
                   exec_left_open, load_ok_since>>

\* the test that selects the segments to load
SegmentWanted(ph) ==
    ph.p_vaddr >= memory_bottom /\ ph.p_type = PT_LOAD

\* the segment's span of RAM, zeroed
ZeroFill(ph) ==
    [a \in 0..(MemBytes - 1) |->
        IF a >= ph.p_vaddr /\ a < ph.p_vaddr + ph.p_memsz THEN 0 ELSE ram[a]]

\* File::seek_from_start: an offset past the end of the file is refused
SeekOk(offset) == offset <= FileLen

\* File::read into a buffer of len bytes at offset: the bytes the file has
BytesRead(offset, len) == Min(len, FileLen - offset)

\* uncached_read on top of the zero fill
FillFromFile(ph) ==
    [a \in 0..(MemBytes - 1) |->
        IF a >= ph.p_vaddr /\ a < ph.p_vaddr + BytesRead(ph.p_offset, ph.p_filesz)
        THEN FileByte(ph.p_offset + (a - ph.p_vaddr))
        ELSE ZeroFill(ph)[a]]

\* the segment reaches outside [memory_bottom, memory_top)
OutsideArena(ph) ==
    ph.p_memsz > 0 /\ (ph.p_vaddr < memory_bottom
                        \/ ph.p_vaddr + ph.p_memsz > memory_top)

\* some byte of [memory_bottom, memory_top) differs between r1 and r2
ArenaChanged(r1, r2) ==
    \E a \in 0..(MemBytes - 1) :
        a >= memory_bottom /\ a < memory_top /\ r1[a] # r2[a]

\* how the loop body ends for ph: "skip" (segment not wanted), "next"
\* (segment loaded), "panic" (&mut ram[0..filesz] is out of range), "error"
\* (uncached_read failed and `?` returned)
LoadOutcome(ph, disk_ok) ==
    CASE ~SegmentWanted(ph) -> "skip"
      [] ph.p_filesz = 0 -> "next"
      [] ph.p_filesz > ph.p_memsz -> "panic"
      [] ~SeekOk(ph.p_offset) \/ ~disk_ok -> "error"
      [] OTHER -> "next"

\* RAM after the loop body ran for ph
LoadRam(ph, disk_ok) ==
    CASE LoadOutcome(ph, disk_ok) = "skip" -> ram
      [] LoadOutcome(ph, disk_ok) = "next" /\ ph.p_filesz # 0 -> FillFromFile(ph)
      [] OTHER -> ZeroFill(ph)

\* load_program: the iterator returned Some(Ok(ph)); disk_ok tells whether
\* the block device serves the read
LoadHeader(ph, disk_ok) ==
    /\ tpa_pc = "loading"
    /\ load_n < MaxPh
    /\ load_n' = load_n + 1
    /\ ram' = LoadRam(ph, disk_ok)
    /\ load_modified' = (load_modified \/ ArenaChanged(ram, LoadRam(ph, disk_ok)))
    /\ load_outside' = (load_outside \/ (SegmentWanted(ph) /\ OutsideArena(ph)))
    /\ CASE LoadOutcome(ph, disk_ok) = "panic" ->
                /\ tpa_pc' = "panic"
                /\ tpa_call' = "load"
                /\ tpa_result' = "panic"
         [] LoadOutcome(ph, disk_ok) = "error" ->
                /\ tpa_pc' = "idle"
                /\ tpa_call' = "load"
                /\ tpa_result' = "Filesystem"
         [] OTHER -> UNCHANGED <<tpa_pc, tpa_call, tpa_result>>
    /\ UNCHANGED <<memory_bottom, memory_top, last_entry, OPEN_HANDLES,
                   load_entry, load_ph_err, stolen_size, top_before,
                   stolen_ptr, exec_left_open, load_ok_since>>

\* load_program: the iterator returned Some(Err(_)); `while let Some(Ok(ph))`
\* stops matching, the loop ends and the function carries on
LoadHeaderErr ==
    /\ tpa_pc = "loading"
    /\ load_n < MaxPh
    /\ load_ph_err' = TRUE
    /\ last_entry' = load_entry
    /\ tpa_pc' = "idle"
    /\ tpa_call' = "load"
    /\ load_ok_since' = TRUE
    /\ tpa_result' = "Ok"
    /\ UNCHANGED <<memory_bottom, memory_top, ram, OPEN_HANDLES, load_entry,
                   load_n, load_modified, load_outside, stolen_size,
                   top_before, stolen_ptr,
                   exec_left_open>>

\* load_program: the iterator returned None
LoadEnd ==
    /\ tpa_pc = "loading"
    /\ last_entry' = load_entry
    /\ tpa_pc' = "idle"
    /\ tpa_call' = "load"
    /\ load_ok_since' = TRUE
    /\ tpa_result' = "Ok"
    /\ UNCHANGED <<memory_bottom, memory_top, ram, OPEN_HANDLES, load_entry,
                   load_n, load_ph_err, load_modified, load_outside,
                   stolen_size, top_before, stolen_ptr,
                   exec_left_open>>

\* the entry points a file can declare
Entries == {0, memory_bottom + 1, memory_bottom + WordBytes + 1}

\* ------------------------------------------------------------------------
\* copy_program, steal_top, restore_top
\* ------------------------------------------------------------------------
\* the programs copy_program is given: n bytes of pattern p
Programs ==
    {[k \in 1..n |-> p * 16 + k] : n \in {0, WordBytes, TpaLength + 1}, p \in 1..2}

copy_program(program) ==
    /\ tpa_pc = "idle"
    /\ tpa_call' = "copy"
    /\ IF Len(program) > size_words * WordBytes
       THEN /\ tpa_result' = "ProgramTooLarge"
            /\ ram' = ram
       ELSE /\ tpa_result' = "Ok"
            /\ ram' = [a \in 0..(MemBytes - 1) |->
                         IF a >= memory_bottom /\ a < memory_bottom + Len(program)
                         THEN program[a - memory_bottom + 1] ELSE ram[a]]
    /\ UNCHANGED <<memory_bottom, memory_top, last_entry, OPEN_HANDLES, tpa_pc,
                   load_entry, load_n, load_ph_err, load_modified,
                   load_outside, stolen_size, top_before, stolen_ptr,
                   exec_left_open, load_ok_since>>

\* steal_top: the size in words, rounded up
stolen_words_down(size) == size \div 4
stolen_words(size) == (size + 3) \div 4

\* steal_top: new_top is a local; core::ptr::copy moves stolen_words words
\* from memory_bottom to new_top
StealNewTop(size) == memory_top - stolen_words(size) * WordBytes

StealCopy(size) ==
    [a \in 0..(MemBytes - 1) |->
        IF a >= StealNewTop(size) /\ a < StealNewTop(size) + stolen_words(size) * WordBytes
        THEN ram[memory_bottom + (a - StealNewTop(size))]
        ELSE ram[a]]

steal_top(size) ==
    /\ tpa_pc = "idle"
    \* the model stops stealing once a restore_top could leave the RAM modelled
    /\ \/ stolen_words(size) >= size_words
       \/ memory_top + stolen_words(size) * WordBytes <= MemBytes
    /\ tpa_call' = "steal"
    /\ stolen_size' = size
    /\ top_before' = memory_top
    /\ IF stolen_words(size) >= size_words
       THEN /\ tpa_pc' = "panic"
            /\ tpa_result' = "panic"
            /\ UNCHANGED <<ram, stolen_ptr>>
       ELSE /\ tpa_pc' = "stolen"
            /\ tpa_result' = "Ok"
            /\ ram' = StealCopy(size)
            /\ stolen_ptr' = StealNewTop(size)
    /\ UNCHANGED <<memory_bottom, memory_top, last_entry, OPEN_HANDLES,
                   load_entry, load_n, load_ph_err, load_modified,
                   load_outside,
                   exec_left_open, load_ok_since>>

\* restore_top with the size that was stolen
restore_top ==
    /\ tpa_pc = "stolen"
    /\ memory_top' = memory_top + stolen_words(stolen_size) * WordBytes
    /\ tpa_pc' = "idle"
    /\ tpa_call' = "restore"
    /\ tpa_result' = "Ok"
    /\ UNCHANGED <<memory_bottom, last_entry, ram, OPEN_HANDLES, load_entry,
                   load_n, load_ph_err, load_modified, load_outside,
                   stolen_size, top_before, stolen_ptr,
                   exec_left_open, load_ok_since>>

\* ========================================================================
\* The VGA console (src/src/vgaconsole.rs)
\* ========================================================================
VARIABLES
    \* struct ConsoleInner, without addr
    inner,
    \* the video memory at addr: cell index -> [g |-> glyph, a |-> attribute]
    fb,
    \* "idle" between calls, "batch" inside the byte loop of write_bstr /
    \* write_str, "panic" once an assertion failed
    con_pc,
    \* the assertions that failed, when con_pc = "panic"
    con_panic,
    \* the last console step taken
    con_op,
    \* scroll_page calls, overlay draws and overlay erasures of the last step
    con_scrolls, con_draws, con_erases,
    \* the cell under the cursor when the last batch ended, before
    \* cursor_enable ran (NoCell when the cursor was off-screen)
    cell_before

conVars == <<inner, fb, con_pc, con_panic, con_op, con_scrolls, con_draws, con_erases,
             cell_before>>

\* how many bytes of the scroll script were fed to the console
VARIABLE script_pos

\* ------------------------------------------------------------------------
\* CsRefCell (src/src/refcell.rs): one cell, used by the normal context and
\* by an interrupt (or panic) context that preempts it
\* ------------------------------------------------------------------------
VARIABLES
    \* CsRefCell::locked
    locked,
    \* the value in CsRefCell::inner
    cell_inner,
    \* per context, the live CsRefCellGuards, innermost last: "guard" came
    \* from try_lock or lock, "with" belongs to a closure running inside with
    cell_guards,
    \* whether the interrupt context is running (the normal context is then
    \* suspended)
    irq_active,
    \* the last call made on the cell: context, operation and what it returned
    cell_last,
    \* "run", or "panic" once lock() unwrapped a LockError
    cell_pc

cellVars == <<locked, cell_inner, cell_guards, irq_active, cell_last, cell_pc>>

\* the program header of the segment load_program loaded last (NoPh before
\* the first), kept by the specification that follows single segments
VARIABLE load_last

\* the CSI sequence dispatched by the last step (NoCsi when the step was
\* something else), kept by the specifications that follow single sequences
VARIABLE csi_last
\* the video mode change_mode was called with in the step that led here
VARIABLE mode_last
\* the handle callback of the step that led here: its name, its handle, the
\* kind the slot held when it was called and the result it returned
VARIABLE api_last

vars == <<tpaVars, conVars, script_pos, cellVars, load_last, csi_last,
          mode_last, api_last, lock_chain,
          file_source, read_last>>

\* Option<u8>::None for cursor_holder
None == 256
NoCell == [g |-> None, a |-> None]

\* TextForegroundColour / TextBackgroundColour
BLACK == 0
BLUE == 1
GREEN == 2
CYAN == 3
RED == 4
MAGENTA == 5
BROWN == 6
LIGHT_GRAY == 7
DARK_GRAY == 8
LIGHT_BLUE == 9
LIGHT_GREEN == 10
LIGHT_CYAN == 11
LIGHT_RED == 12
PINK == 13
YELLOW == 14
WHITE == 15

DEFAULT_ATTR == [fg |-> LIGHT_GRAY, bg |-> BLACK]

\* Attr::as_u8 with the blink bit clear
as_u8(attr) == attr.bg * 16 + attr.fg

InnerFields == {"width", "height", "row", "col", "attr", "bright", "reverse",
                "cursor_wanted", "cursor_depth", "cursor_holder"}

\* VgaConsole::new over a zeroed buffer of width * height cells
NewInner(w, h) ==
    [width |-> w, height |-> h, row |-> 0, col |-> 0, attr |-> DEFAULT_ATTR,
     bright |-> FALSE, reverse |-> FALSE, cursor_wanted |-> FALSE,
     cursor_holder |-> None, cursor_depth |-> 0]

NewFb(w, h) == [i \in 0..(w * h - 1) |-> [g |-> 0, a |-> 0]]

InitConsole(w, h) ==
    /\ inner = NewInner(w, h)
    /\ fb = NewFb(w, h)
    /\ con_pc = "idle"
    /\ con_panic = {}
    /\ con_op = "new"
    /\ con_scrolls = 0
    /\ con_draws = 0
    /\ con_erases = 0
    /\ cell_before = NoCell

\* The console while one step runs: the fields of ConsoleInner, the video
\* memory, the assertions that failed ("geometry": a row / column bound or
\* an access outside the buffer, "overlay": cursor_holder.is_none(),
\* "depth": cursor_depth left the range of u8), and the counts of the step.
Con == inner @@ [fb |-> fb, panic |-> {}, scrolls |-> 0, draws |-> 0,
                 erases |-> 0]

\* c after the assertion named why was evaluated with outcome ok
Checked(c, ok, why) ==
    IF ok THEN c ELSE [c EXCEPT !.panic = c.panic \cup {why}]

OnScreen(c) ==
    c.row >= 0 /\ c.row < c.height /\ c.col >= 0 /\ c.col < c.width

\* the cell at (row, col); the byte offset is twice this
CellIndex(c, row, col) == (row * c.width) + col

\* the attribute byte write_at stores
WriteAttr(c) ==
    IF c.reverse
    THEN as_u8([fg |-> c.attr.bg, bg |-> c.attr.fg % 8])
    ELSE as_u8(c.attr)

\* the assertions of write_at that fail, if any
WriteAtFailure(c, row, col, is_cursor) ==
    IF ~(row < c.height /\ col < c.width)
          \/ CellIndex(c, row, col) \notin DOMAIN c.fb
    THEN {"geometry"}
    ELSE IF ~(is_cursor \/ c.cursor_holder = None) THEN {"overlay"} ELSE {}

write_at(c, row, col, glyph, is_cursor) ==
    IF WriteAtFailure(c, row, col, is_cursor) # {}
    THEN [c EXCEPT !.panic = c.panic \cup WriteAtFailure(c, row, col, is_cursor)]
    ELSE [c EXCEPT !.fb[CellIndex(c, row, col)] =
                        [g |-> glyph, a |-> WriteAttr(c)]]

write(c, glyph) == write_at(c, c.row, c.col, glyph, FALSE)

\* write_at(row, col, glyph, false) for every <<row, col>> of cells, as the
\* loops of clear, scroll_page and the erase sequences do
write_cells(c, cells, glyph) ==
    IF cells = {} THEN c
    ELSE IF \E rc \in cells : WriteAtFailure(c, rc[1], rc[2], FALSE) # {}
    THEN [c EXCEPT !.panic = c.panic \cup
            UNION {WriteAtFailure(c, rc[1], rc[2], FALSE) : rc \in cells}]
    ELSE [c EXCEPT !.fb =
            [i \in DOMAIN c.fb |->
                IF \E rc \in cells : CellIndex(c, rc[1], rc[2]) = i
                THEN [g |-> glyph, a |-> WriteAttr(c)]
                ELSE c.fb[i]]]

\* the assertions of read_at that fail, if any
ReadAtFailure(c, row, col) ==
    IF ~(row < c.height /\ col < c.width)
          \/ CellIndex(c, row, col) \notin DOMAIN c.fb
    THEN {"geometry"}
    ELSE IF c.cursor_holder # None THEN {"overlay"} ELSE {}

\* read(): the glyph at the cursor
read(c) == c.fb[CellIndex(c, c.row, c.col)].g

\* cursor_depth -= 1 on a u8
DepthKept(d) == d
DepthDown(d) == (d - 1) % 256

cursor_enable(c) ==
    LET c1 == Checked([c EXCEPT !.cursor_depth = DepthDown(c.cursor_depth)],
                     c.cursor_depth > 0, "depth")
    IN  IF c1.cursor_depth = 0 /\ c1.cursor_wanted /\ c1.cursor_holder = None
        THEN IF OnScreen(c1)
             THEN IF ReadAtFailure(c1, c1.row, c1.col) # {}
                  THEN [c1 EXCEPT !.panic =
                            c1.panic \cup ReadAtFailure(c1, c1.row, c1.col)]
                  ELSE [write_at(c1, c1.row, c1.col, 95, TRUE) EXCEPT
                            !.cursor_holder = read(c1),
                            !.draws = c1.draws + 1]
             ELSE [c1 EXCEPT !.cursor_holder = 32]
        ELSE c1

\* cursor_holder.take()
TakeKeep(c) == c
Take(c) == [c EXCEPT !.cursor_holder = None]

cursor_disable(c) ==
    LET c1 == IF c.cursor_holder # None
              THEN IF OnScreen(c)
                   THEN [write(Take(c), c.cursor_holder) EXCEPT
                            !.erases = c.erases + 1]
                   ELSE Take(c)
              ELSE c
    IN  Checked([c1 EXCEPT !.cursor_depth = (c1.cursor_depth + 1) % 256],
               c1.cursor_depth < 255, "depth")

move_cursor_relative(c, rows, cols) ==
    LET r0 == c.row + rows
        c0 == c.col + cols
        r1 == IF r0 < 0 THEN 0 ELSE r0
        c1 == IF c0 < 0 THEN 0 ELSE c0
        r2 == IF r1 >= c.height THEN c.height - 1 ELSE r1
        c2 == IF c1 >= c.width THEN c.width - 1 ELSE c1
    IN  [c EXCEPT !.row = r2, !.col = c2]

move_cursor_absolute(c, rows, cols) ==
    move_cursor_relative([c EXCEPT !.row = rows, !.col = cols], 0, 0)

home(c) == move_cursor_absolute(c, 0, 0)

\* scroll_page: rows 1..height-1 move up one row, the bottom row is blanked
ScrollCopyNone(c) == c.fb
ScrollCopy(c) ==
    [i \in DOMAIN c.fb |->
        IF i < c.width * (c.height - 1) THEN c.fb[i + c.width] ELSE c.fb[i]]

scroll_page(c) ==
    LET c1 == [c EXCEPT !.fb = ScrollCopy(c), !.scrolls = c.scrolls + 1]
    IN  write_cells(c1, {<<c.height - 1, col>> : col \in 0..(c.width - 1)}, 32)

\* the column at which scroll_as_required wraps
WrapAtEarly(c) == c.width - 1
WrapAt(c) == c.width

scroll_as_required(c) ==
    LET c0 == Checked(c, c.row <= c.height, "geometry")
        c1 == IF c0.col >= WrapAt(c0)
              THEN [c0 EXCEPT !.col = 0, !.row = c0.row + 1]
              ELSE c0
    IN  IF c1.row = c1.height
        THEN scroll_page([c1 EXCEPT !.row = c1.row - 1])
        ELSE c1

\* ConsoleInner::clear
clear(c) ==
    home(write_cells(c, {<<row, col>> : row \in 0..(c.height - 1),
                                        col \in 0..(c.width - 1)}, 32))

\* map_char_to_glyph on a Unicode scalar value: the printable ASCII range is
\* kept, the Code Page 850 table maps the rest, anything else is '?'
map_char_to_glyph(input) ==
    CASE input >= 32 /\ input <= 126 -> input
      [] input = 160 -> 255
      [] input = 163 -> 156
      [] input = 233 -> 130
      [] input = 255 -> 152
      [] input = 9472 -> 196
      [] input = 9787 -> 2
      [] OTHER -> 63

\* vte::Perform::print
print(c, ch) ==
    LET c1 == scroll_as_required(c)
        c2 == write(c1, map_char_to_glyph(ch))
    IN  [c2 EXCEPT !.col = c2.col + 1]

\* a control code handled without looking at the pending position
ScrollFirstSkipped(c) == c
\* execute() begins with scroll_as_required()
ScrollFirst(c) == scroll_as_required(c)

\* vte::Perform::execute
execute(c, byte) ==
    LET c1 == ScrollFirst(c)
    IN  CASE byte = 8 -> IF c1.col > 0 THEN [c1 EXCEPT !.col = c1.col - 1] ELSE c1
          [] byte = 13 -> [c1 EXCEPT !.col = 0]
          [] byte = 10 -> [c1 EXCEPT !.col = 0, !.row = c1.row + 1]
          [] OTHER -> c1

\* the colour an SGR code 30..37 / 40..47 selects
SgrColour(n) ==
    CASE n = 0 -> BLACK
      [] n = 1 -> RED
      [] n = 2 -> GREEN
      [] n = 3 -> BROWN
      [] n = 4 -> BLUE
      [] n = 5 -> MAGENTA
      [] n = 6 -> CYAN
      [] OTHER -> LIGHT_GRAY

\* a reset that leaves reverse video on
SgrResetKeepsReverse(c) ==
    [c EXCEPT !.attr = DEFAULT_ATTR, !.bright = FALSE]
\* parameter 0: reset, or normal
SgrReset(c) ==
    [c EXCEPT !.attr = DEFAULT_ATTR, !.bright = FALSE, !.reverse = FALSE]

\* a reverse video that swaps the stored colours
SgrReverseStored(c) ==
    [c EXCEPT !.reverse = TRUE,
              !.attr = [fg |-> c.attr.bg, bg |-> c.attr.fg % 8]]
\* parameter 7: reverse video
SgrReverse(c) == [c EXCEPT !.reverse = TRUE]

\* one parameter of a Select Graphic Rendition sequence
SgrParam(c, p) ==
    CASE p = 0 -> SgrReset(c)
      [] p = 1 -> [c EXCEPT !.bright = TRUE]
      [] p = 7 -> SgrReverse(c)
      [] p = 22 -> [c EXCEPT !.bright = FALSE]
      [] p >= 30 /\ p <= 37 -> [c EXCEPT !.attr.fg = SgrColour(p - 30)]
      [] p = 39 -> [c EXCEPT !.attr.fg = LIGHT_GRAY]
      [] p >= 40 /\ p <= 47 -> [c EXCEPT !.attr.bg = SgrColour(p - 40)]
      [] p = 49 -> [c EXCEPT !.attr.bg = LIGHT_GRAY]
      [] OTHER -> c

RECURSIVE SgrParams(_, _, _)
SgrParams(c, params, i) ==
    IF i > Len(params) THEN c
    ELSE SgrParams(SgrParam(c, params[i]), params, i + 1)

\* the brighter sibling of a foreground colour
Brighten(fg) ==
    CASE fg = BLACK -> DARK_GRAY
      [] fg = RED -> LIGHT_RED
      [] fg = GREEN -> LIGHT_GREEN
      [] fg = BROWN -> YELLOW
      [] fg = BLUE -> LIGHT_BLUE
      [] fg = MAGENTA -> PINK
      [] fg = CYAN -> LIGHT_CYAN
      [] fg = LIGHT_GRAY -> WHITE
      [] OTHER -> fg

\* a promotion made before the parameters are looked at
SgrPromoteFirst(c, params) ==
    SgrParams(IF c.bright THEN [c EXCEPT !.attr.fg = Brighten(c.attr.fg)] ELSE c,
              params, 1)
\* the 'm' arm: every parameter in turn, then the promotion of the foreground
Sgr(c, params) ==
    LET c1 == SgrParams(c, params, 1)
    IN  IF c1.bright THEN [c1 EXCEPT !.attr.fg = Brighten(c1.attr.fg)] ELSE c1

\* `if first == 0 { first = 1; }` of the cursor sequences
ZeroKept(n) == n
ZeroIsOne(n) == IF n = 0 THEN 1 ELSE n

\* "We are zero-indexed, ANSI is 1-indexed"
OneIndexedKept(n) == n
ZeroIndexed(n) == n - 1

\* a DECTCEM set that draws the cursor glyph at once
ShowCursorNow(c) ==
    IF OnScreen(c)
    THEN write_at([c EXCEPT !.cursor_wanted = TRUE], c.row, c.col, 95, TRUE)
    ELSE [c EXCEPT !.cursor_wanted = TRUE]
\* ESC[?25h: only the flag is set
ShowCursor(c) == [c EXCEPT !.cursor_wanted = TRUE]

AllCells(c) ==
    {<<row, col>> : row \in 0..(c.height - 1), col \in 0..(c.width - 1)}

\* vte::Perform::csi_dispatch.  params holds the first value of each
\* parameter, intermediates the intermediate bytes, action the final byte.
csi_dispatch(c, params, intermediates, action) ==
    LET first0 == IF Len(params) >= 1 THEN params[1] ELSE 1
        second0 == IF Len(params) >= 2 THEN params[2] ELSE 1
        first == ZeroIsOne(first0)
        second == ZeroIsOne(second0)
        private == Len(intermediates) >= 1 /\ intermediates[1] = 63
    IN  CASE action = "m" -> Sgr(c, params)
          [] action = "A" -> move_cursor_relative(c, 0 - first, 0)
          [] action = "B" -> move_cursor_relative(c, first, 0)
          [] action = "C" -> move_cursor_relative(c, 0, first)
          [] action = "D" -> move_cursor_relative(c, 0, 0 - first)
          [] action = "E" -> move_cursor_absolute(c, c.row + first, 0)
          [] action = "F" -> move_cursor_absolute(c, c.row - first, 0)
          [] action = "G" -> move_cursor_absolute(c, c.row, ZeroIndexed(first))
          [] action \in {"H", "f"} ->
                move_cursor_absolute(c, ZeroIndexed(first), ZeroIndexed(second))
          [] action = "J" ->
                CASE first0 = 0 ->
                        write_cells(c, {rc \in AllCells(c) :
                            rc[1] > c.row \/ (rc[1] = c.row /\ rc[2] >= c.col)}, 32)
                  [] first0 = 1 ->
                        write_cells(c, {rc \in AllCells(c) :
                            rc[1] < c.row \/ (rc[1] = c.row /\ rc[2] <= c.col)}, 32)
                  [] first0 = 2 -> write_cells(c, AllCells(c), 32)
                  [] OTHER -> c
          [] action = "K" ->
                CASE first0 = 0 ->
                        write_cells(c, {<<c.row, col>> : col \in c.col..(c.width - 1)}, 32)
                  [] first0 = 1 ->
                        write_cells(c, {<<c.row, col>> : col \in 0..c.col}, 32)
                  [] first0 = 2 ->
                        write_cells(c, {<<c.row, col>> : col \in 0..(c.width - 1)}, 32)
                  [] OTHER -> c
          [] action = "h" /\ private -> ShowCursor(c)
          [] action = "l" /\ private -> [c EXCEPT !.cursor_wanted = FALSE]
          [] OTHER -> c

\* ------------------------------------------------------------------------
\* Console steps
\* ------------------------------------------------------------------------
\* store the console c once the step named op has run
Store(c, op) ==
    /\ inner' = [f \in InnerFields |-> c[f]]
    /\ fb' = c.fb
    /\ con_op' = op
    /\ con_scrolls' = c.scrolls
    /\ con_draws' = c.draws
    /\ con_erases' = c.erases
    /\ con_panic' = c.panic
    /\ con_pc' = IF c.panic # {} THEN "panic"
                 ELSE IF op \in {"begin", "print", "execute", "csi"} THEN "batch"
                 ELSE "idle"

\* write_bstr / write_str: cursor_disable, then the byte loop starts
BatchBegin ==
    /\ con_pc = "idle"
    /\ LET c == cursor_disable(Con)
       IN  /\ Store(c, "begin")
    /\ UNCHANGED cell_before

\* the parser hands a printable character to print()
PrintChar(ch) ==
    /\ con_pc = "batch"
    /\ LET c == print(Con, ch)
       IN  /\ Store(c, "print")
    /\ UNCHANGED cell_before

\* the parser hands a C0 control code to execute()
Execute(byte) ==
    /\ con_pc = "batch"
    /\ LET c == execute(Con, byte)
       IN  /\ Store(c, "execute")
    /\ UNCHANGED cell_before

\* the parser completed a CSI sequence
CsiDispatch(params, intermediates, action) ==
    /\ con_pc = "batch"
    /\ LET c == csi_dispatch(Con, params, intermediates, action)
       IN  /\ Store(c, "csi")
    /\ UNCHANGED cell_before

\* write_bstr / write_str: the byte loop is over, cursor_enable
BatchEnd ==
    /\ con_pc = "batch"
    /\ LET c == cursor_enable(Con)
       IN  /\ Store(c, "end")
    /\ cell_before' = IF OnScreen(Con)
                      THEN fb[CellIndex(Con, inner.row, inner.col)]
                      ELSE NoCell

\* VgaConsole::clear
Clear ==
    /\ con_pc = "idle"
    /\ LET c0 == cursor_disable(Con)
           c == cursor_enable(clear(c0))
       IN  /\ Store(c, "clear")
           /\ cell_before' = [g |-> 32, a |-> WriteAttr(c0)]

\* VgaConsole::set_attr
SetAttr(attr) ==
    /\ con_pc = "idle"
    /\ inner' = [inner EXCEPT !.attr = attr]
    /\ con_op' = "set_attr"
    /\ con_scrolls' = 0
    /\ con_draws' = 0
    /\ con_erases' = 0
    /\ UNCHANGED <<fb, con_pc, con_panic, cell_before>>

\* a mode change that leaves the screen as it is
ModeClearSkipped(c) == c
\* the self.clear() of change_mode, between cursor_disable and cursor_enable
ModeClear(c) == clear(c)

\* VgaConsole::change_mode with a text mode of w columns and h rows
ChangeMode(w, h) ==
    /\ con_pc = "idle"
    /\ LET c0 == cursor_disable([Con EXCEPT !.height = h, !.width = w])
           c == cursor_enable(ModeClear(c0))
       IN  /\ Store(c, "change_mode")
           /\ cell_before' = [g |-> 32, a |-> WriteAttr(c0)]

\* VgaConsole::change_mode with a mode that has no text geometry
ChangeModeNonText ==
    /\ con_pc = "idle"
    /\ con_op' = "change_mode"
    /\ con_scrolls' = 0
    /\ con_draws' = 0
    /\ con_erases' = 0
    /\ UNCHANGED <<inner, fb, con_pc, con_panic, cell_before>>

\* ========================================================================
\* CsRefCell (src/src/refcell.rs)
\* ========================================================================
Contexts == {"main", "irq"}

NoCall == [ctx |-> "none", op |-> "none", result |-> "none"]

\* CsRefCell::new
InitCell ==
    /\ locked = FALSE
    /\ cell_inner = 0
    /\ cell_guards = [c \in Contexts |-> <<>>]
    /\ irq_active = FALSE
    /\ cell_last = NoCall
    /\ cell_pc = "run"

\* the context that is executing
Running(ctx) ==
    /\ cell_pc = "run"
    /\ IF ctx = "irq" THEN irq_active ELSE ~irq_active

\* api.compare_and_swap_bool(&self.locked, false, true): whether the swap
\* took place.  The BIOS makes the compare and the store one atomic step.
SwapAlways == TRUE
SwapSucceeds == locked = FALSE

\* try_lock from ctx; frame is what the caller keeps the guard in
TryLockInto(ctx, op, frame) ==
    /\ Running(ctx)
    /\ Len(cell_guards[ctx]) < MaxGuards
    /\ IF SwapSucceeds
       THEN /\ locked' = TRUE
            /\ cell_guards' = [cell_guards EXCEPT ![ctx] = Append(@, frame)]
            /\ cell_last' = [ctx |-> ctx, op |-> op, result |-> "Ok"]
            /\ cell_pc' = cell_pc
       ELSE /\ cell_last' = [ctx |-> ctx, op |-> op,
                             result |-> IF op = "lock" THEN "panic"
                                        ELSE "LockError"]
            /\ cell_pc' = IF op = "lock" THEN "panic" ELSE cell_pc
            /\ UNCHANGED <<locked, cell_guards>>
    /\ UNCHANGED <<cell_inner, irq_active>>

\* CsRefCell::try_lock
try_lock(ctx) == TryLockInto(ctx, "try_lock", "guard")

\* CsRefCell::lock: try_lock().unwrap()
lock(ctx) == TryLockInto(ctx, "lock", "guard")

\* CsRefCell::with, up to the call of the closure: a LockError returns at
\* once through `?`
WithBegin(ctx) == TryLockInto(ctx, "with", "with")

\* DerefMut on the innermost guard of ctx: the holder changes the value
GuardWrite(ctx) ==
    /\ Running(ctx)
    /\ cell_guards[ctx] # <<>>
    /\ cell_inner < MaxCellWrites
    /\ cell_inner' = cell_inner + 1
    /\ cell_last' = [ctx |-> ctx, op |-> "write", result |-> "Ok"]
    /\ UNCHANGED <<locked, cell_guards, irq_active, cell_pc>>

\* CsRefCellGuard::drop of the innermost guard of ctx (for a "with" frame:
\* the closure returned and with dropped its guard)
GuardDrop(ctx) ==
    /\ Running(ctx)
    /\ cell_guards[ctx] # <<>>
    /\ locked' = FALSE
    /\ cell_guards' = [cell_guards EXCEPT ![ctx] = SubSeq(@, 1, Len(@) - 1)]
    /\ cell_last' = [ctx |-> ctx, op |-> "drop", result |-> "Ok"]
    /\ UNCHANGED <<cell_inner, irq_active, cell_pc>>

\* an interrupt (or a panic) preempts the normal context
IrqEnter ==
    /\ cell_pc = "run"
    /\ ~irq_active
    /\ irq_active' = TRUE
    /\ cell_last' = [ctx |-> "irq", op |-> "enter", result |-> "Ok"]
    /\ UNCHANGED <<locked, cell_inner, cell_guards, cell_pc>>

\* the interrupt handler returns; its guards went out of scope before
IrqReturn ==
    /\ cell_pc = "run"
    /\ irq_active
    /\ cell_guards["irq"] = <<>>
    /\ irq_active' = FALSE
    /\ cell_last' = [ctx |-> "irq", op |-> "return", result |-> "Ok"]
    /\ UNCHANGED <<locked, cell_inner, cell_guards, cell_pc>>

\* ========================================================================
\* Specifications
\* ========================================================================
\* geometry of the console of the cursor-overlay specification
CurWidth == 2
CurHeight == 1
\* geometry of the console of the column-wrap specification
WrapWidth == 2
WrapHeight == 2

ConsoleUnused == UNCHANGED <<conVars, script_pos, cellVars, load_last, csi_last, mode_last,
                api_last, lock_chain,
          file_source, read_last>>
TpaUnused == UNCHANGED <<tpaVars, script_pos, cellVars, load_last, csi_last, mode_last,
                api_last, lock_chain,
          file_source, read_last>>

\* ------------------------------------------------------------------------
\* SpecExec: load, execute and the handle callbacks of the running program
\* ------------------------------------------------------------------------
OpenTargets == {"AUDIO:", "file", "missing", "ioerror"}
CloseFds == 0..NumHandles \cup {255}

InitExec ==
    InitTpa /\ InitConsole(CurWidth, CurHeight) /\ script_pos = 0 /\ InitCell
        /\ load_last = NoPh /\ csi_last = NoCsi /\ mode_last = NoMode
        /\ api_last = NoApi /\ lock_chain = NoChain
        /\ file_source = NewFileSource /\ read_last = NoRead

NextExec ==
    \/ (\E e \in Entries : LoadBegin(e)) /\ ConsoleUnused
    \/ LoadEnd /\ ConsoleUnused
    \/ LoadOpenFail /\ ConsoleUnused
    \/ LoadHeaderFail /\ ConsoleUnused
    \/ ExecuteNothingLoaded /\ ConsoleUnused
    \/ ExecuteStart /\ ConsoleUnused
    \/ (\E code \in {0, 1} : ExecuteReturn(code)) /\ ConsoleUnused
    \/ (\E t \in OpenTargets : api_open(t)) /\ ConsoleUnused
    \/ (\E fd \in CloseFds : api_close(fd)) /\ ConsoleUnused

SpecExec == InitExec /\ [][NextExec]_vars

\* ------------------------------------------------------------------------
\* SpecLoad: load_program header by header, and execute
\* ------------------------------------------------------------------------
NextLoad ==
    \/ (\E e \in Entries : LoadBegin(e)) /\ ConsoleUnused
    \/ (\E ph \in ProgramHeaders, disk_ok \in BOOLEAN : LoadHeader(ph, disk_ok))
          /\ ConsoleUnused
    \/ LoadHeaderErr /\ ConsoleUnused
    \/ LoadEnd /\ ConsoleUnused
    \/ LoadOpenFail /\ ConsoleUnused
    \/ LoadHeaderFail /\ ConsoleUnused
    \/ ExecuteNothingLoaded /\ ConsoleUnused
    \/ ExecuteStart /\ ConsoleUnused
    \/ (\E code \in {0, 1} : ExecuteReturn(code)) /\ ConsoleUnused

SpecLoad == InitExec /\ [][NextLoad]_vars

\* ------------------------------------------------------------------------
\* SpecArena: copy_program, steal_top, restore_top
\* ------------------------------------------------------------------------
StealSizes == 0..(TpaLength + 1)

NextArena ==
    \/ (\E program \in Programs : copy_program(program)) /\ ConsoleUnused
    \/ (\E size \in StealSizes : steal_top(size)) /\ ConsoleUnused
    \/ restore_top /\ ConsoleUnused

SpecArena == InitExec /\ [][NextArena]_vars

\* ------------------------------------------------------------------------
\* SpecCursor: the public console operations, with the cursor overlay
\* ------------------------------------------------------------------------
RedOnBlack == [fg |-> RED, bg |-> BLACK]

\* the CSI sequences fed: cursor on, cursor off, cursor back
CursorCsi ==
    {<<<<25>>, <<63>>, "h">>, <<<<25>>, <<63>>, "l">>, <<<<0>>, <<>>, "D">>}

\* the text modes change_mode is given (they fit the buffer)
CursorModes == {<<CurWidth, CurHeight>>, <<1, 1>>}

InitCursor ==
    InitTpa /\ InitConsole(CurWidth, CurHeight) /\ script_pos = 0 /\ InitCell
        /\ load_last = NoPh /\ csi_last = NoCsi /\ mode_last = NoMode
        /\ api_last = NoApi /\ lock_chain = NoChain
        /\ file_source = NewFileSource /\ read_last = NoRead

NextCursor ==
    \/ BatchBegin /\ TpaUnused
    \/ (\E ch \in {65} : PrintChar(ch)) /\ TpaUnused
    \/ (\E byte \in {10} : Execute(byte)) /\ TpaUnused
    \/ (\E x \in CursorCsi : CsiDispatch(x[1], x[2], x[3])) /\ TpaUnused
    \/ BatchEnd /\ TpaUnused
    \/ Clear /\ TpaUnused
    \/ (\E attr \in {DEFAULT_ATTR, RedOnBlack} : SetAttr(attr)) /\ TpaUnused
    \/ (\E m \in CursorModes : ChangeMode(m[1], m[2])) /\ TpaUnused
    \/ ChangeModeNonText /\ TpaUnused

SpecCursor == InitCursor /\ [][NextCursor]_vars

\* ------------------------------------------------------------------------
\* SpecWrap: printing, newlines and cursor positioning
\* ------------------------------------------------------------------------
\* the CSI sequences fed: home, first column of the last row
WrapCsi ==
    {<<<<0>>, <<>>, "H">>, <<<<WrapHeight, 1>>, <<>>, "H">>}

InitWrap ==
    InitTpa /\ InitConsole(WrapWidth, WrapHeight) /\ script_pos = 0 /\ InitCell
        /\ load_last = NoPh /\ csi_last = NoCsi /\ mode_last = NoMode
        /\ api_last = NoApi /\ lock_chain = NoChain
        /\ file_source = NewFileSource /\ read_last = NoRead

NextWrap ==
    \/ BatchBegin /\ TpaUnused
    \/ (\E ch \in {65, 233} : PrintChar(ch)) /\ TpaUnused
    \/ (\E byte \in {10, 13} : Execute(byte)) /\ TpaUnused
    \/ (\E x \in WrapCsi : CsiDispatch(x[1], x[2], x[3])) /\ TpaUnused
    \/ BatchEnd /\ TpaUnused

SpecWrap == InitWrap /\ [][NextWrap]_vars

\* ------------------------------------------------------------------------
\* SpecScroll: a fresh console is fed height+1 lines, line k being the
\* character '0'+k followed by a newline, in batches cut anywhere
\* ------------------------------------------------------------------------
ScrollMaxWidth == 3
ScrollMaxHeight == 3

ScriptLen == 2 * (inner.height + 1)

InitScroll ==
    /\ InitTpa
    /\ \E w \in 1..ScrollMaxWidth, h \in 1..ScrollMaxHeight : InitConsole(w, h)
    /\ script_pos = 0
    /\ InitCell
    /\ load_last = NoPh
    /\ csi_last = NoCsi
    /\ mode_last = NoMode
    /\ api_last = NoApi /\ lock_chain = NoChain
        /\ file_source = NewFileSource /\ read_last = NoRead

ScriptBegin ==
    /\ script_pos < ScriptLen
    /\ BatchBegin
    /\ UNCHANGED <<tpaVars, script_pos, cellVars, load_last, csi_last, mode_last,
                api_last, lock_chain,
          file_source, read_last>>

ScriptPrint ==
    /\ script_pos < ScriptLen
    /\ script_pos % 2 = 0
    /\ PrintChar(48 + (script_pos \div 2))
    /\ script_pos' = script_pos + 1
    /\ UNCHANGED <<tpaVars, cellVars, load_last, csi_last, mode_last,
                api_last, lock_chain,
          file_source, read_last>>

ScriptNewline ==
    /\ script_pos < ScriptLen
    /\ script_pos % 2 = 1
    /\ Execute(10)
    /\ script_pos' = script_pos + 1
    /\ UNCHANGED <<tpaVars, cellVars, load_last, csi_last, mode_last,
                api_last, lock_chain,
          file_source, read_last>>

ScriptEnd ==
    /\ BatchEnd
    /\ UNCHANGED <<tpaVars, script_pos, cellVars, load_last, csi_last, mode_last,
                api_last, lock_chain,
          file_source, read_last>>

NextScroll == ScriptBegin \/ ScriptPrint \/ ScriptNewline \/ ScriptEnd

SpecScroll == InitScroll /\ [][NextScroll]_vars

\* ------------------------------------------------------------------------
\* SpecSegment: load_program of files whose headers all parse, header by
\* header, remembering the segment loaded last
\* ------------------------------------------------------------------------
SegmentOnly ==
    UNCHANGED <<conVars, script_pos, cellVars, csi_last, mode_last, api_last, lock_chain,
          file_source, read_last>>

NextSegment ==
    \/ LoadBegin(memory_bottom + 1) /\ load_last' = NoPh /\ SegmentOnly
    \/ (\E ph \in ProgramHeaders, disk_ok \in BOOLEAN :
            /\ LoadHeader(ph, disk_ok)
            /\ load_last' = IF SegmentWanted(ph) THEN ph ELSE load_last)
          /\ SegmentOnly
    \/ LoadEnd /\ UNCHANGED load_last /\ SegmentOnly

SpecSegment == InitExec /\ [][NextSegment]_vars

\* ------------------------------------------------------------------------
\* SpecMotion: the relative cursor sequences with their parameter omitted,
\* 0 and 1
\* ------------------------------------------------------------------------
MotionOnly ==
    UNCHANGED <<tpaVars, script_pos, cellVars, load_last, mode_last, api_last, lock_chain,
          file_source, read_last>>

\* final bytes of the relative cursor sequences
MotionFinals == {"A", "B", "C", "D", "E", "F"}

\* the parameter lists fed: none, and 0 (also what the parser hands over
\* for an omitted parameter)
MotionParams == {<<>>, <<0>>}

NextMotion ==
    \/ BatchBegin /\ csi_last' = NoCsi /\ MotionOnly
    \/ PrintChar(65) /\ csi_last' = NoCsi /\ MotionOnly
    \/ Execute(10) /\ csi_last' = NoCsi /\ MotionOnly
    \/ (\E p \in MotionParams, x \in MotionFinals :
            /\ CsiDispatch(p, <<>>, x)
            /\ csi_last' = [params |-> p, action |-> x])
          /\ MotionOnly

SpecMotion == InitWrap /\ [][NextMotion]_vars

\* ------------------------------------------------------------------------
\* SpecSgr and the specifications after it: sequences fed to the console
\* ------------------------------------------------------------------------
\* Select Graphic Rendition sequences and printing in one batch; here
\* csi_last is the last sequence dispatched, kept across the other steps.
SgrWidth == 2
SgrLists == {<<1, 33, 44>>, <<7>>, <<31>>, <<0>>}

\* a console of one line
InitSgr ==
    InitTpa /\ InitConsole(SgrWidth, 1) /\ script_pos = 0 /\ InitCell
        /\ load_last = NoPh /\ csi_last = NoCsi /\ mode_last = NoMode
        /\ api_last = NoApi /\ lock_chain = NoChain
        /\ file_source = NewFileSource /\ read_last = NoRead

NextSgr ==
    \/ BatchBegin /\ UNCHANGED csi_last /\ MotionOnly
    \/ PrintChar(65) /\ UNCHANGED csi_last /\ MotionOnly
    \/ (\E p \in SgrLists :
            /\ CsiDispatch(p, <<>>, "m")
            /\ csi_last' = [params |-> p, action |-> "m"])
          /\ MotionOnly
    \/ BatchEnd /\ UNCHANGED csi_last /\ MotionOnly

SpecSgr == InitSgr /\ [][NextSgr]_vars

\* Select Graphic Rendition sequences that set bold and a foreground colour
\* in either order, or one of the two, or take bold away
BrightLists ==
    {<<1, k>> : k \in 30..37} \cup {<<k, 1>> : k \in 30..37}
        \cup {<<k>> : k \in 30..37} \cup {<<1>>, <<22>>, <<0>>}

NextBright ==
    \/ BatchBegin /\ UNCHANGED csi_last /\ MotionOnly
    \/ (\E p \in BrightLists :
            /\ CsiDispatch(p, <<>>, "m")
            /\ csi_last' = [params |-> p, action |-> "m"])
          /\ MotionOnly
    \/ BatchEnd /\ UNCHANGED csi_last /\ MotionOnly

SpecBright == InitSgr /\ [][NextBright]_vars

\* Colours are chosen freely, then script_pos counts the steps of: a
\* character, ESC[7m, a character, ESC[m, a character.  ESC[m reaches
\* csi_dispatch with the single parameter 0.
RevLists == {<<1>>, <<22>>, <<31>>, <<44>>, <<33, 41>>, <<0>>}
RevOnly == UNCHANGED <<tpaVars, cellVars, load_last, mode_last, api_last, lock_chain,
          file_source, read_last>>
RevKeep == UNCHANGED <<script_pos, csi_last>>

NextReverse ==
    \/ BatchBegin /\ RevKeep /\ RevOnly
    \/ (\E p \in RevLists :
            /\ script_pos = 0
            /\ CsiDispatch(p, <<>>, "m")
            /\ csi_last' = [params |-> p, action |-> "m"]
            /\ UNCHANGED script_pos)
          /\ RevOnly
    \/ (\E ch \in {65} :
            /\ script_pos \in {0, 2, 4}
            /\ PrintChar(ch)
            /\ script_pos' = script_pos + 1
            /\ UNCHANGED csi_last)
          /\ RevOnly
    \/ (/\ script_pos \in {1, 3}
        /\ CsiDispatch(IF script_pos = 1 THEN <<7>> ELSE <<0>>, <<>>, "m")
        /\ csi_last' = [params |-> IF script_pos = 1 THEN <<7>> ELSE <<0>>,
                        action |-> "m"]
        /\ script_pos' = script_pos + 1)
          /\ RevOnly
    \/ BatchEnd /\ script_pos = 5 /\ RevKeep /\ RevOnly

SpecReverse == InitWrap /\ [][NextReverse]_vars

\* clear() between batches that print, pick a foreground colour and turn
\* the cursor on
ClearCsi == {<<<<31>>, <<>>, "m">>, <<<<25>>, <<63>>, "h">>}

NextClear ==
    \/ BatchBegin /\ TpaUnused
    \/ PrintChar(65) /\ TpaUnused
    \/ (\E x \in ClearCsi : CsiDispatch(x[1], x[2], x[3])) /\ TpaUnused
    \/ BatchEnd /\ TpaUnused
    \/ Clear /\ TpaUnused

SpecClear == InitCursor /\ [][NextClear]_vars

\* One batch of bytes: a printable character, backspace, line feed,
\* carriage return and the cursor sequences, with parameters that stay on
\* the screen and that leave it.  csi_last is the sequence of the step, or
\* NoCsi after any other step.
ByteMotions == {"A", "B", "C", "D", "G"}
ByteCounts == {<<0>>, <<2>>, <<WrapWidth + WrapHeight>>}
BytePlaces == {<<>>, <<WrapHeight, WrapWidth>>}

NextBytes ==
    \/ BatchBegin /\ csi_last' = NoCsi /\ MotionOnly
    \/ PrintChar(65) /\ csi_last' = NoCsi /\ MotionOnly
    \/ (\E byte \in {8, 10, 13} : Execute(byte)) /\ csi_last' = NoCsi
          /\ MotionOnly
    \/ (\E p \in ByteCounts, x \in ByteMotions :
            /\ CsiDispatch(p, <<>>, x)
            /\ csi_last' = [params |-> p, action |-> x])
          /\ MotionOnly
    \/ (\E p \in BytePlaces :
            /\ CsiDispatch(p, <<>>, "H")
            /\ csi_last' = [params |-> p, action |-> "H"])
          /\ MotionOnly

SpecBytes == InitWrap /\ [][NextBytes]_vars

\* Cursor Position with every place of the screen, with omitted and zero
\* parameters, and as Horizontal Vertical Position, between characters and
\* line feeds
PlaceLists ==
    {<<r, c>> : r \in 1..WrapHeight, c \in 1..WrapWidth}
        \cup {<<>>, <<0, 0>>, <<0, WrapWidth>>, <<WrapHeight>>}
PlaceCsi ==
    {<<p, "H">> : p \in PlaceLists} \cup {<<<<WrapHeight, WrapWidth>>, "f">>}

NextPlace ==
    \/ BatchBegin /\ csi_last' = NoCsi /\ MotionOnly
    \/ PrintChar(65) /\ csi_last' = NoCsi /\ MotionOnly
    \/ Execute(10) /\ csi_last' = NoCsi /\ MotionOnly
    \/ (\E x \in PlaceCsi :
            /\ CsiDispatch(x[1], <<>>, x[2])
            /\ csi_last' = [params |-> x[1], action |-> x[2]])
          /\ MotionOnly

SpecPlace == InitWrap /\ [][NextPlace]_vars

\* Erase in Display and Erase in Line, in their three modes, between
\* characters, line feeds and cursor home
EraseCsi == {<<<<n>>, x>> : n \in 0..2, x \in {"J", "K"}} \cup {<<<<>>, "H">>}

NextErase ==
    \/ BatchBegin /\ csi_last' = NoCsi /\ MotionOnly
    \/ PrintChar(65) /\ csi_last' = NoCsi /\ MotionOnly
    \/ Execute(10) /\ csi_last' = NoCsi /\ MotionOnly
    \/ (\E x \in EraseCsi :
            /\ CsiDispatch(x[1], <<>>, x[2])
            /\ csi_last' = [params |-> x[1], action |-> x[2]])
          /\ MotionOnly

SpecErase == InitWrap /\ [][NextErase]_vars

\* change_mode between batches that print, feed lines and turn the cursor
\* on.  The text modes fit the buffer the console was constructed over.
TextModes == {<<CurWidth, CurHeight>>, <<CurHeight, CurWidth>>, <<1, 1>>}
ModeOnly ==
    UNCHANGED <<tpaVars, script_pos, cellVars, load_last, csi_last, api_last, lock_chain,
          file_source, read_last>>

NextMode ==
    \/ BatchBegin /\ mode_last' = NoMode /\ ModeOnly
    \/ PrintChar(65) /\ mode_last' = NoMode /\ ModeOnly
    \/ Execute(10) /\ mode_last' = NoMode /\ ModeOnly
    \/ CsiDispatch(<<25>>, <<63>>, "h") /\ mode_last' = NoMode /\ ModeOnly
    \/ BatchEnd /\ mode_last' = NoMode /\ ModeOnly
    \/ (\E m \in TextModes :
            /\ ChangeMode(m[1], m[2])
            /\ mode_last' = [kind |-> "text", width |-> m[1], height |-> m[2]])
          /\ ModeOnly
    \/ ChangeModeNonText
          /\ mode_last' = [kind |-> "graphics", width |-> 0, height |-> 0]
          /\ ModeOnly

SpecMode == InitCursor /\ [][NextMode]_vars

\* A program that opens, closes, writes, reads and configures handles
HandleFds == {0, 1, 3, 255}
HandleOnly ==
    UNCHANGED <<conVars, script_pos, cellVars, load_last, csi_last, mode_last,
                lock_chain,
          file_source, read_last>>
Called(call, fd, result) ==
    api_last' = [call |-> call, fd |-> fd, kind |-> SlotKind(fd),
                 result |-> result]

NextHandles ==
    \/ LoadBegin(memory_bottom + 1) /\ api_last' = NoApi /\ HandleOnly
    \/ LoadEnd /\ api_last' = NoApi /\ HandleOnly
    \/ ExecuteStart /\ api_last' = NoApi /\ HandleOnly
    \/ ExecuteReturn(0) /\ api_last' = NoApi /\ HandleOnly
    \/ (\E t \in {"AUDIO:", "file"} : api_open(t)) /\ api_last' = NoApi
          /\ HandleOnly
    \/ (\E fd \in HandleFds : \E r \in api_close_results(fd) :
            api_close(fd) /\ Called("close", fd, r))
          /\ HandleOnly
    \/ (\E fd \in HandleFds : \E r \in api_write_results(fd) :
            api_write(fd) /\ Called("write", fd, r))
          /\ HandleOnly
    \/ (\E fd \in HandleFds : \E r \in api_read_results(fd) :
            api_read(fd) /\ Called("read", fd, r))
          /\ HandleOnly
    \/ (\E fd \in HandleFds, command \in {0, 3} :
         \E r \in api_ioctl_results(fd, command) :
            api_ioctl(fd, command) /\ Called("ioctl", fd, r))
          /\ HandleOnly

SpecHandles == InitExec /\ [][NextHandles]_vars

\* Characters and line feeds that scroll the page, under the graphic
\* renditions red foreground, reverse video and reset
RollLists == {<<31>>, <<7>>, <<0>>}

NextRoll ==
    \/ BatchBegin /\ UNCHANGED csi_last /\ MotionOnly
    \/ PrintChar(65) /\ UNCHANGED csi_last /\ MotionOnly
    \/ Execute(10) /\ UNCHANGED csi_last /\ MotionOnly
    \/ (\E p \in RollLists :
            /\ CsiDispatch(p, <<>>, "m")
            /\ csi_last' = [params |-> p, action |-> "m"])
          /\ MotionOnly

SpecRoll == InitWrap /\ [][NextRoll]_vars

\* Colours are chosen freely, then script_pos counts the steps of: a
\* character, ESC[1m, ESC[22m, a character (what flames' set_colour sends
\* around a bold glyph that shares its colour with its neighbours).
BoldLists == {<<k>> : k \in 30..37} \cup {<<44>>, <<1>>, <<22>>, <<0>>}

NextBold ==
    \/ BatchBegin /\ RevKeep /\ RevOnly
    \/ (\E p \in BoldLists :
            /\ script_pos = 0
            /\ CsiDispatch(p, <<>>, "m")
            /\ csi_last' = [params |-> p, action |-> "m"]
            /\ UNCHANGED script_pos)
          /\ RevOnly
    \/ (/\ script_pos \in {0, 3}
        /\ PrintChar(65)
        /\ script_pos' = script_pos + 1
        /\ UNCHANGED csi_last)
          /\ RevOnly
    \/ (/\ script_pos \in {1, 2}
        /\ CsiDispatch(IF script_pos = 1 THEN <<1>> ELSE <<22>>, <<>>, "m")
        /\ csi_last' = [params |-> IF script_pos = 1 THEN <<1>> ELSE <<22>>,
                        action |-> "m"]
        /\ script_pos' = script_pos + 1)
          /\ RevOnly
    \/ BatchEnd /\ script_pos = 4 /\ RevKeep /\ RevOnly

SpecBold == InitSgr /\ [][NextBold]_vars

\* write_bstr batches that print, feed lines and turn the cursor on and
\* off, and clear() between them
GlyphCsi == {<<<<25>>, <<63>>, "h">>, <<<<25>>, <<63>>, "l">>}

NextGlyph ==
    \/ BatchBegin /\ TpaUnused
    \/ PrintChar(65) /\ TpaUnused
    \/ Execute(10) /\ TpaUnused
    \/ (\E x \in GlyphCsi : CsiDispatch(x[1], x[2], x[3])) /\ TpaUnused
    \/ BatchEnd /\ TpaUnused
    \/ Clear /\ TpaUnused

SpecGlyph == InitCursor /\ [][NextGlyph]_vars

\* A program that opens, closes, writes, reads, configures and stats
\* handles, each call taking and dropping its guards step by step
LockFds == {0, 1, 3, 255}
LockOnly ==
    UNCHANGED <<conVars, script_pos, cellVars, load_last, csi_last, mode_last,
                api_last, file_source, read_last>>

NextLocks ==
    \/ LoadBegin(memory_bottom + 1) /\ lock_chain.plan = <<>>
          /\ UNCHANGED lock_chain /\ LockOnly
    \/ LoadEnd /\ UNCHANGED lock_chain /\ LockOnly
    \/ ExecuteStart /\ Call("execute", ExecuteStartLocks) /\ LockOnly
    \/ ExecuteReturn(0) /\ Call("execute", ExecuteReturnLocks) /\ LockOnly
    \/ (\E t \in {"AUDIO:", "file", "missing"} :
            /\ t = "file" => OpenFiles < MAX_FILES
            /\ api_open(t)
            /\ Call("api_open", api_open_locks(t)))
          /\ LockOnly
    \/ (\E fd \in LockFds : api_close(fd) /\ Call("api_close", api_close_locks(fd)))
          /\ LockOnly
    \/ (\E fd \in LockFds : api_write(fd) /\ Call("api_write", api_write_locks(fd)))
          /\ LockOnly
    \/ (\E fd \in LockFds : api_read(fd) /\ Call("api_read", api_read_locks(fd)))
          /\ LockOnly
    \/ (\E fd \in LockFds, command \in {0, 1} :
            api_ioctl(fd, command) /\ Call("api_ioctl", api_ioctl_locks(fd, command)))
          /\ LockOnly
    \/ (\E fd \in LockFds : api_fstat(fd) /\ Call("api_fstat", api_fstat_locks(fd)))
          /\ LockOnly
    \/ LockStep /\ UNCHANGED tpaVars /\ LockOnly

SpecLocks == InitExec /\ [][NextLocks]_vars

\* A program that opens the audio device and files (as many as the volume
\* manager lets it), opens paths that fail, and closes handles
NextOpen ==
    \/ LoadBegin(memory_bottom + 1) /\ api_last' = NoApi /\ HandleOnly
    \/ LoadEnd /\ api_last' = NoApi /\ HandleOnly
    \/ ExecuteStart /\ api_last' = NoApi /\ HandleOnly
    \/ ExecuteReturn(0) /\ api_last' = NoApi /\ HandleOnly
    \/ (\E t \in OpenTargets :
            /\ t = "file" => OpenFiles < MAX_FILES
            /\ api_open(t)
            /\ api_last' = [call |-> "open", fd |-> api_open_results(t).fd,
                            kind |-> t, result |-> api_open_results(t).result])
          /\ HandleOnly
    \/ (\E fd \in {1, 3, 4, 255} : \E r \in api_close_results(fd) :
            api_close(fd) /\ Called("close", fd, r))
          /\ HandleOnly

SpecOpen == InitExec /\ [][NextOpen]_vars

\* The loader reading through the source: any offset and length from a few
\* on both sides of the cache size, with the file answering or failing
ReadOffsets == {0, 1, 64, 128, 130}
ReadLens == {0, 1, 64, 128, 129, 200}
SourceOnly ==
    UNCHANGED <<tpaVars, conVars, script_pos, cellVars, load_last, csi_last,
                mode_last, api_last, lock_chain>>
NextSource ==
    \E offset \in ReadOffsets : \E len \in ReadLens : \E file_ok \in BOOLEAN :
        SourceRead(offset, len, file_ok) /\ SourceOnly

SpecSource == InitExec /\ [][NextSource]_vars

\* The console of the driver's tests, fed "0\n1\n" and then newlines, in
\* batches cut anywhere; script_pos counts the bytes fed.
TestWidth == 12
TestHeight == 7
MaxNewlines == 30

LinesLen == 3 + MaxNewlines
LinesByte(i) == IF i = 0 THEN 48 ELSE IF i = 2 THEN 49 ELSE 10

InitLines ==
    InitTpa /\ InitConsole(TestWidth, TestHeight) /\ script_pos = 0 /\ InitCell
        /\ load_last = NoPh /\ csi_last = NoCsi /\ mode_last = NoMode
        /\ api_last = NoApi /\ lock_chain = NoChain
        /\ file_source = NewFileSource /\ read_last = NoRead

LinesOnly ==
    UNCHANGED <<tpaVars, cellVars, load_last, csi_last, mode_last, api_last, lock_chain,
          file_source, read_last>>

NextLines ==
    \/ BatchBegin /\ script_pos < LinesLen /\ UNCHANGED script_pos /\ LinesOnly
    \/ (/\ script_pos < LinesLen
        /\ LinesByte(script_pos) # 10
        /\ PrintChar(LinesByte(script_pos))
        /\ script_pos' = script_pos + 1)
          /\ LinesOnly
    \/ (/\ script_pos < LinesLen
        /\ LinesByte(script_pos) = 10
        /\ Execute(10)
        /\ script_pos' = script_pos + 1)
          /\ LinesOnly
    \/ BatchEnd /\ UNCHANGED script_pos /\ LinesOnly

SpecLines == InitLines /\ [][NextLines]_vars

\* ------------------------------------------------------------------------
\* SpecCell: one CsRefCell shared by the normal and the interrupt context
\* ------------------------------------------------------------------------
CellOnly ==
    UNCHANGED <<tpaVars, conVars, script_pos, load_last, csi_last, mode_last,
                api_last, lock_chain,
          file_source, read_last>>

NextCell ==
    \/ (\E ctx \in Contexts : try_lock(ctx)) /\ CellOnly
    \/ (\E ctx \in Contexts : lock(ctx)) /\ CellOnly
    \/ (\E ctx \in Contexts : WithBegin(ctx)) /\ CellOnly
    \/ (\E ctx \in Contexts : GuardWrite(ctx)) /\ CellOnly
    \/ (\E ctx \in Contexts : GuardDrop(ctx)) /\ CellOnly
    \/ IrqEnter /\ CellOnly
    \/ IrqReturn /\ CellOnly

SpecCell == InitExec /\ [][NextCell]_vars

\* ========================================================================
\* Properties
\* ========================================================================
\* C1: whenever execute() has returned, whatever the program opened or
\* closed and whatever it returned, all 8 slots of OPEN_HANDLES are Closed.
HandlesClosedAfterExecute ==
    (tpa_call = "execute" /\ tpa_pc # "running")
        => \A i \in 0..(NumHandles - 1) : OPEN_HANDLES[i] = "Closed"

\* C1 witness: execute() returned from a program that left handles open
ExecuteReturnedWithOpenHandles ==
    tpa_call = "execute" /\ tpa_pc = "idle" /\ tpa_result = "Ok(n)"
        /\ exec_left_open

\* C2 (as claimed): once restore_top(size) has followed steal_top(size),
\* memory_top is what it was before steal_top and the arena does not reach
\* past the region given to new().
StealRestoreRoundTrip ==
    (tpa_call = "restore" /\ tpa_pc = "idle")
        => (memory_top = top_before /\ memory_top <= RegionEnd)

\* C8 (as claimed): a load_program during which the header iterator returned
\* an error returns Err(Elf) (and so records no entry point).
ParseFailureIsElf ==
    (tpa_call = "load" /\ tpa_pc = "idle" /\ load_ph_err)
        => tpa_result = "Elf"

\* C9 (as claimed): when load_program returned an error, either no byte of
\* the arena changed or nothing is staged (last_entry = 0).
RejectedLoadNoCorruption ==
    (tpa_call = "load" /\ tpa_pc = "idle" /\ tpa_result \in {"Filesystem", "Elf"})
        => (~load_modified \/ last_entry = 0)

\* C10 (as claimed): load_program writes no byte outside
\* [memory_bottom, memory_top).
LoadStaysInsideArena == ~load_outside

\* the cell under the cursor
CursorCell == fb[CellIndex(inner, inner.row, inner.col)]

\* C3: column wrap is lazy.  A print() with the cursor inside a row writes
\* the cell under the cursor only, moves one column right (up to col = width)
\* and does not scroll; a print() with the cursor at col = width writes
\* column 0 of the next row, after scrolling the page by one row exactly when
\* that row would be row height.
LazyWrapStep ==
    (con_pc = "batch" /\ con_op' = "print" /\ inner.row < inner.height) =>
        LET w == inner.width
            h == inner.height
            r == inner.row
            col == inner.col
            target == IF col < w THEN r * w + col
                      ELSE IF r + 1 < h THEN (r + 1) * w
                      ELSE (h - 1) * w
        IN  /\ con_pc' = "batch"
            /\ fb'[target].g \in {65, 130}
            /\ IF col < w
               THEN /\ inner'.row = r
                    /\ inner'.col = col + 1
                    /\ con_scrolls' = 0
                    /\ \A i \in DOMAIN fb : i # target => fb'[i] = fb[i]
               ELSE IF r + 1 < h
               THEN /\ inner'.row = r + 1
                    /\ inner'.col = 1
                    /\ con_scrolls' = 0
                    /\ \A i \in DOMAIN fb : i # target => fb'[i] = fb[i]
               ELSE /\ inner'.row = h - 1
                    /\ inner'.col = 1
                    /\ con_scrolls' = 1
                    /\ \A i \in 0..(w * (h - 1) - 1) : fb'[i] = fb[i + w]

LazyWrap == [][LazyWrapStep]_vars

\* C3 witness: the last cell of the last row was printed and nothing scrolled
LastCellPrintedNoScroll ==
    /\ con_op = "print"
    /\ con_scrolls = 0
    /\ inner.row = inner.height - 1
    /\ inner.col = inner.width
    /\ \A i \in DOMAIN fb : fb[i].g \in {65, 130}

\* C4 (as claimed): when cursor_disable has erased the overlay that the
\* cursor_enable of the previous batch drew, the cell under the cursor holds
\* the glyph byte and the attribute byte it held before that cursor_enable.
OverlayReversible ==
    (con_op = "begin" /\ con_erases = 1) => CursorCell = cell_before

\* C5 (as claimed): between public operations cursor_holder is Some exactly
\* when the cursor glyph '_' is in the framebuffer at the cursor position.
HolderIffCursorDrawn ==
    con_pc = "idle" =>
        ((inner.cursor_holder # None) <=> (OnScreen(inner) /\ CursorCell.g = 95))

\* C5 (amended): between public operations cursor_holder is Some exactly
\* when cursor_wanted is set; when it is Some and the cursor is on-screen the
\* glyph '_' is in the framebuffer at the cursor position; when the cursor is
\* off-screen it is Some(' ') and nothing is drawn.
HolderIffWantedAndDrawnOnScreen ==
    con_pc = "idle" =>
        /\ (inner.cursor_holder # None) <=> inner.cursor_wanted
        /\ (inner.cursor_holder # None /\ OnScreen(inner)) => CursorCell.g = 95
        /\ (inner.cursor_holder # None /\ ~OnScreen(inner))
                => (inner.cursor_holder = 32 /\ con_draws = 0)

\* C5 witness: a batch ended with the cursor wanted and off-screen
HolderSetOffScreen ==
    /\ con_pc = "idle"
    /\ con_op = "end"
    /\ inner.cursor_wanted
    /\ ~OnScreen(inner)
    /\ inner.cursor_holder = 32

\* C6: cursor_disable / cursor_enable are balanced.  cursor_depth is 0
\* between operations and at least 1 inside a batch (it never leaves the
\* range of u8), no step draws or erases the overlay more than once,
\* cursor_holder is None while bytes are parsed, and no overlay assertion
\* fails.
CursorBalanced ==
    /\ "overlay" \notin con_panic
    /\ "depth" \notin con_panic
    /\ con_pc = "idle" => inner.cursor_depth = 0
    /\ con_pc = "batch" => (inner.cursor_depth >= 1 /\ inner.cursor_holder = None)
    /\ con_draws <= 1
    /\ con_erases <= 1

\* C6 witness: the page scrolled inside a batch while the cursor is wanted
ScrolledInsideBatch ==
    /\ con_pc = "batch"
    /\ con_op = "print"
    /\ con_scrolls = 1
    /\ inner.cursor_wanted
    /\ inner.cursor_depth = 1

ScriptDone == script_pos = ScriptLen

\* the character of line k is nowhere in the buffer
LineAbsent(k) == \A i \in DOMAIN fb : fb[i].g # 48 + k

Blank == [g |-> 32, a |-> as_u8(DEFAULT_ATTR)]

\* C7 (as claimed): after the height+1 lines the character of line 0 is
\* gone, each of the lines 1..height sits one row higher, and the bottom row
\* is blank.
ScrollLeavesBottomBlank ==
    ScriptDone =>
        /\ LineAbsent(0)
        /\ \A k \in 1..inner.height : fb[(k - 1) * inner.width].g = 48 + k
        /\ \A col \in 0..(inner.width - 1) :
                fb[(inner.height - 1) * inner.width + col] = Blank

\* C7 (amended): on a console at least two columns wide, after the height+1
\* lines the character of line 0 is gone, the character of each line k in
\* 1..height sits in column 0 of row k-1, so the bottom row holds the last
\* line's character followed by blanks, and the cursor is pending at
\* row = height.
ScrollLeavesLastLineAtBottom ==
    (ScriptDone /\ inner.width >= 2) =>
        /\ LineAbsent(0)
        /\ \A k \in 1..inner.height :
                fb[(k - 1) * inner.width] = [g |-> 48 + k, a |-> as_u8(DEFAULT_ATTR)]
        /\ \A col \in 1..(inner.width - 1) :
                fb[(inner.height - 1) * inner.width + col] = Blank
        /\ inner.row = inner.height
        /\ inner.col = 0

\* C7 witness: the whole script was fed to a console of several rows
ScrollScriptFed ==
    ScriptDone /\ inner.height >= 2 /\ inner.width >= 2 /\ con_pc = "idle"

\* ------------------------------------------------------------------------
\* execute and the handle table
\* ------------------------------------------------------------------------
\* C11: a program cannot be re-executed without being reloaded.  execute()
\* transfers control only when load_program has returned Ok since the arena
\* was created and since the last program returned; an execute() without
\* such a load returns NothingLoaded, transfers no control and leaves the
\* handle table alone.
NoReexecuteStep ==
    /\ (tpa_pc # "running" /\ tpa_pc' = "running") => load_ok_since
    /\ (tpa_pc = "idle" /\ tpa_pc' = "idle" /\ tpa_call' = "execute"
            /\ ~load_ok_since)
          => (tpa_result' = "NothingLoaded" /\ OPEN_HANDLES' = OPEN_HANDLES)
    /\ (tpa_pc = "idle" /\ ~load_ok_since) => ~ENABLED ExecuteStart

NoReexecute == [][NoReexecuteStep]_vars

\* C11 witness: a program ran and returned, and the execute() that followed
\* without a load was turned down
ReexecuteTurnedDown ==
    /\ tpa_pc = "idle"
    /\ tpa_call = "execute"
    /\ tpa_result = "NothingLoaded"
    /\ exec_left_open
    /\ ~load_ok_since

\* the handle table of a program that was just started
FreshHandles ==
    [i \in 0..(NumHandles - 1) |->
        CASE i = 0 -> "StdIn" [] i = 1 -> "Stdout" [] i = 2 -> "StdErr"
          [] OTHER -> "Closed"]

\* C12: whenever execute() transfers control to a program, slots 0, 1, 2 of
\* the handle table are StdIn, Stdout, StdErr and slots 3..7 are Closed.
HandlesFreshAtStartStep ==
    (tpa_pc # "running" /\ tpa_pc' = "running") => OPEN_HANDLES' = FreshHandles

HandlesFreshAtStart == [][HandlesFreshAtStartStep]_vars

\* C12 witness: a program was started after an earlier program had returned
\* with a file or the audio device open
StartedAfterLeakyProgram ==
    tpa_pc = "running" /\ exec_left_open /\ OPEN_HANDLES = FreshHandles

\* C13 (as claimed): while a program runs, handles 0, 1 and 2 are StdIn,
\* Stdout and StdErr whatever it closes and opens.
StdHandlesFixedWhileRunning ==
    tpa_pc = "running" =>
        /\ OPEN_HANDLES[0] = "StdIn"
        /\ OPEN_HANDLES[1] = "Stdout"
        /\ OPEN_HANDLES[2] = "StdErr"

\* ------------------------------------------------------------------------
\* steal_top
\* ------------------------------------------------------------------------
\* C14 (as claimed): once steal_top(size) has returned, memory_top is
\* ceil(size/4) words lower than before and the pointer returned is at or
\* above the new memory_top.
StealShrinksArena ==
    tpa_pc = "stolen" =>
        /\ memory_top = top_before - ((stolen_size + 3) \div 4) * WordBytes
        /\ stolen_ptr >= memory_top

\* C15 (as claimed): steal_top(size) panics exactly when size is not
\* strictly smaller than the byte length of the arena.
StealPanicsIffNotSmaller ==
    tpa_call = "steal" =>
        (tpa_pc = "panic" <=> ~(stolen_size < memory_top - memory_bottom))

\* C15 (amended): steal_top(size) panics exactly when size rounded up to a
\* multiple of 4 is not strictly smaller than the byte length of the arena.
StealPanicsIffRoundedNotSmaller ==
    tpa_call = "steal" =>
        (tpa_pc = "panic"
            <=> ~(((stolen_size + 3) \div 4) * 4 < memory_top - memory_bottom))

\* C15 witness: a steal_top of fewer bytes than the arena holds panicked
StealOfSmallerSizePanicked ==
    /\ tpa_call = "steal"
    /\ tpa_pc = "panic"
    /\ stolen_size < memory_top - memory_bottom
    /\ stolen_size % 4 # 0

\* ------------------------------------------------------------------------
\* CsRefCell
\* ------------------------------------------------------------------------
\* the guards that are live, over both contexts
LiveGuards == Len(cell_guards["main"]) + Len(cell_guards["irq"])

\* a try_lock or with made on a held cell returns LockError, starts no
\* closure and changes neither the holder nor the value; a try_lock, with or
\* lock made on a free cell succeeds
FailFastStep ==
    /\ (locked /\ cell_last' # cell_last /\ cell_last'.op \in {"try_lock", "with"})
          => /\ cell_last'.result = "LockError"
             /\ cell_guards' = cell_guards
             /\ locked' = locked
             /\ cell_inner' = cell_inner
             /\ cell_pc' = cell_pc
    /\ (~locked /\ cell_last' # cell_last
            /\ cell_last'.op \in {"try_lock", "with", "lock"})
          => /\ cell_last'.result = "Ok"
             /\ locked'
             /\ Len(cell_guards'[cell_last'.ctx]) = 1

\* C16: CsRefCell is a fail-fast mutual-exclusion cell.  At most one guard
\* is live at a time, and the cell is locked exactly while one is; try_lock
\* and with on a held cell return LockError at once without running the
\* closure or changing the holder; once the guard is dropped the cell is
\* free and the next try_lock succeeds.
FailFastMutex ==
    /\ [](LiveGuards <= 1 /\ (locked <=> LiveGuards = 1))
    /\ [][FailFastStep]_vars

\* C16 witness: the interrupt context was refused the cell that the normal
\* context holds
IrqRefusedHeldCell ==
    /\ cell_last = [ctx |-> "irq", op |-> "try_lock", result |-> "LockError"]
    /\ Len(cell_guards["main"]) = 1
    /\ cell_guards["irq"] = <<>>
    /\ locked

\* ------------------------------------------------------------------------
\* load_program, segment by segment
\* ------------------------------------------------------------------------
\* load_program has returned Ok and the last segment it loaded is load_last
LoadedLast ==
    tpa_call = "load" /\ tpa_pc = "idle" /\ tpa_result = "Ok" /\ load_last # NoPh

\* C17 (as claimed): when load_program has returned Ok, the segment loaded
\* last, if its p_filesz <= p_memsz, holds the file's bytes from p_offset in
\* its first p_filesz bytes and zero in the rest.
SegmentFilledFromFile ==
    (LoadedLast /\ load_last.p_filesz <= load_last.p_memsz) =>
        \A i \in 0..(load_last.p_memsz - 1) :
            IF i < load_last.p_filesz
            THEN /\ load_last.p_offset + i < FileLen
                 /\ ram[load_last.p_vaddr + i] = FileByte(load_last.p_offset + i)
            ELSE ram[load_last.p_vaddr + i] = 0

\* C18 (as claimed): when the file ends before p_offset + p_filesz of the
\* segment loaded last, load_program does not return Ok.
TruncatedSegmentFails ==
    (tpa_call = "load" /\ tpa_pc = "idle" /\ load_last # NoPh
        /\ load_last.p_filesz > 0
        /\ load_last.p_offset + load_last.p_filesz > FileLen)
      => tpa_result # "Ok"

\* ------------------------------------------------------------------------
\* CSI parameters
\* ------------------------------------------------------------------------
\* C19: a relative cursor sequence (final byte A..F) whose parameter is
\* omitted or 0 leaves the console in the state the same sequence with
\* parameter 1 leaves it in.
MotionDefaultStep ==
    csi_last' # NoCsi =>
        LET c == csi_dispatch(Con, <<1>>, <<>>, csi_last'.action)
        IN  /\ inner' = [f \in InnerFields |-> c[f]]
            /\ fb' = c.fb
            /\ con_panic' = c.panic

MotionDefault == [][MotionDefaultStep]_vars

\* C19 witness: ESC[0B moved the cursor one row down
CursorDownByZero ==
    /\ csi_last = [params |-> <<0>>, action |-> "B"]
    /\ con_op = "csi"
    /\ inner.row = 1
    /\ inner.col = 1

\* C20: after ESC[0m, whatever Select Graphic Rendition sequences came
\* before, the stored attribute is the default light gray on black, bright
\* and reverse are clear, and a character printed next lands in a cell
\* with the attribute a freshly constructed console prints with.
ResetCsi == [params |-> <<0>>, action |-> "m"]
SgrResetRoundTrip ==
    csi_last = ResetCsi =>
        /\ inner.attr = DEFAULT_ATTR
        /\ ~inner.bright
        /\ ~inner.reverse
        /\ WriteAttr(inner) = WriteAttr(NewInner(SgrWidth, 1))
        /\ (con_op = "print" /\ con_panic = {}) =>
              fb[CellIndex(inner, inner.row, inner.col - 1)].a
                  = WriteAttr(NewInner(SgrWidth, 1))
\* C20 witness: a cell printed in bright yellow on blue, reversed, is
\* followed by a cell printed after ESC[0m
PrintedAfterReset ==
    /\ csi_last = ResetCsi
    /\ con_op = "print"
    /\ inner.row = 0
    /\ inner.col = 2
    /\ fb[0].a = as_u8([fg |-> BLUE, bg |-> YELLOW % 8])
    /\ fb[1].a = as_u8(DEFAULT_ATTR)

\* C21: when bright is set once a Select Graphic Rendition sequence is done,
\* the foreground colour its code 30..37 chose is stored as the bright
\* sibling (eight places up the palette), and ESC[1;3km, ESC[3k;1m and
\* ESC[1m followed by ESC[3km all leave the same console.
ColourCode(p) ==
    IF Len(p) >= 1 /\ p[Len(p)] \in 30..37 THEN p[Len(p)]
    ELSE IF Len(p) = 2 /\ p[1] \in 30..37 THEN p[1]
    ELSE 0
BrightSibling(code) ==
    CASE code = 30 -> DARK_GRAY
      [] code = 31 -> LIGHT_RED
      [] code = 32 -> LIGHT_GREEN
      [] code = 33 -> YELLOW
      [] code = 34 -> LIGHT_BLUE
      [] code = 35 -> PINK
      [] code = 36 -> LIGHT_CYAN
      [] code = 37 -> WHITE
BrightPromotionStep ==
    (con_op' = "csi" /\ ColourCode(csi_last'.params) # 0 /\ inner'.bright) =>
        inner'.attr.fg = BrightSibling(ColourCode(csi_last'.params))
BrightOrderFree ==
    \A k \in 30..37 :
        /\ csi_dispatch(Con, <<1, k>>, <<>>, "m")
              = csi_dispatch(Con, <<k, 1>>, <<>>, "m")
        /\ csi_dispatch(Con, <<1, k>>, <<>>, "m")
              = csi_dispatch(csi_dispatch(Con, <<1>>, <<>>, "m"), <<k>>, <<>>, "m")
BrightPromotion == []BrightOrderFree /\ [][BrightPromotionStep]_vars
\* C21 witness: ESC[31m arrived with bold left on by an earlier sequence,
\* and red was stored as light red
RedPromotedByEarlierBold ==
    /\ csi_last = [params |-> <<31>>, action |-> "m"]
    /\ con_op = "csi"
    /\ inner.bright
    /\ inner.attr.fg = LIGHT_RED

\* C22 (as claimed): after ESC[7m, a character, ESC[m and a second
\* character, the cell of the second character carries the attribute the
\* character printed before ESC[7m got.
ReverseRestoredByReset ==
    script_pos = 5 => fb[2].a = fb[0].a
\* C22 (amended): ESC[7m and printing leave the stored attribute alone, the
\* cell printed under reverse carries the colours swapped, and the cell
\* printed after ESC[m carries the default attribute, which is the one from
\* before ESC[7m only if that was the default.
Swapped(a) == (a % 8) * 16 + (a \div 16)
ReverseAtWriteTimeStep ==
    script_pos \in {1, 2} => inner'.attr = inner.attr
ReverseThenReset ==
    script_pos = 5 =>
        /\ fb[1].a = Swapped(fb[0].a)
        /\ fb[2].a = as_u8(DEFAULT_ATTR)
        /\ (fb[2].a = fb[0].a) <=> (fb[0].a = as_u8(DEFAULT_ATTR))
ReverseNonDestructive == []ReverseThenReset /\ [][ReverseAtWriteTimeStep]_vars
\* C22 witness: light red on blue before ESC[7m, blue on red under it,
\* light gray on black after ESC[m
ResetAfterReversedLightRed ==
    /\ script_pos = 5
    /\ fb[0].a = as_u8([fg |-> LIGHT_RED, bg |-> BLUE])
    /\ fb[1].a = as_u8([fg |-> BLUE, bg |-> RED])
    /\ fb[2].a = as_u8(DEFAULT_ATTR)

\* the cell at index i without the cursor glyph drawn over it
UnderOf(c, cells, i) ==
    IF c.cursor_holder # None /\ OnScreen(c) /\ i = CellIndex(c, c.row, c.col)
    THEN [g |-> c.cursor_holder, a |-> cells[i].a]
    ELSE cells[i]
Under(i) == UnderOf(inner, fb, i)
\* C23 (as claimed): once clear() has run, a second clear() changes neither
\* the framebuffer nor the console state, every cell is a space with the
\* default attribute, and the cursor is at (0,0).
ClearIdempotentAndDefault ==
    (con_op = "clear" /\ con_panic = {}) =>
        LET again == cursor_enable(clear(cursor_disable(Con)))
        IN  /\ again.fb = fb
            /\ [f \in InnerFields |-> again[f]] = inner
            /\ \A i \in DOMAIN fb : Under(i) = Blank
            /\ inner.row = 0
            /\ inner.col = 0

\* C24 (as claimed): the cursor is on the screen, 0 <= row < height and
\* 0 <= col < width, or off the bottom at row = height.
CursorOnScreenOrOffBottom ==
    /\ 0 <= inner.row /\ inner.row <= inner.height
    /\ 0 <= inner.col /\ inner.col < inner.width
\* C24 (amended): 0 <= row <= height and 0 <= col <= width, never row =
\* height together with col = width, and every glyph is placed in a cell
\* of the screen without a failed assertion.
CursorNearScreen ==
    /\ 0 <= inner.row /\ inner.row <= inner.height
    /\ 0 <= inner.col /\ inner.col <= inner.width
    /\ ~(inner.row = inner.height /\ inner.col = inner.width)
GlyphPlacedOnScreenStep ==
    con_op' = "print" =>
        /\ con_panic' = {}
        /\ 0 <= inner'.row /\ inner'.row < inner'.height
        /\ 1 <= inner'.col /\ inner'.col <= inner'.width
        /\ fb'[CellIndex(inner', inner'.row, inner'.col - 1)].g = 65
CursorKeptNearScreen == []CursorNearScreen /\ [][GlyphPlacedOnScreenStep]_vars
\* C24 witness: the pending position was resolved by a scroll and the
\* glyph was placed in the first cell of the bottom row
PlacedAfterPendingScroll ==
    /\ con_op = "print"
    /\ con_scrolls = 1
    /\ inner.row = inner.height - 1
    /\ inner.col = 1
    /\ fb[CellIndex(inner, inner.height - 1, 0)].g = 65

\* C25: a character printed right after ESC[r;cH or ESC[r;cf, with r and c
\* on the screen and an omitted or zero parameter counting as 1, is written
\* at row r-1, column c-1, every other cell keeps its contents, and the
\* cursor is left at row r-1, column c.
PlaceRow(p) == IF Len(p) >= 1 /\ p[1] # 0 THEN p[1] ELSE 1
PlaceCol(p) == IF Len(p) >= 2 /\ p[2] # 0 THEN p[2] ELSE 1
PlaceThenPrintStep ==
    (csi_last.action \in {"H", "f"} /\ con_op' = "print") =>
        LET r == PlaceRow(csi_last.params)
            c == PlaceCol(csi_last.params)
            at == (r - 1) * inner.width + (c - 1)
        IN  /\ con_panic' = {}
            /\ fb'[at] = [g |-> 65, a |-> as_u8(inner.attr)]
            /\ \A i \in DOMAIN fb : i # at => fb'[i] = fb[i]
            /\ inner'.row = r - 1
            /\ inner'.col = c
PlaceThenPrint == [][PlaceThenPrintStep]_vars
\* C25 witness: ESC[2;2H on a screen holding a character in its first cell,
\* then a character, which went to row 1, column 1
PrintedAtSecondRowSecondColumn ==
    /\ con_op = "print"
    /\ inner.row = 1
    /\ inner.col = 2
    /\ fb[0].g = 65
    /\ fb[1].g = 0
    /\ fb[inner.width].g = 0
    /\ fb[inner.width + 1].g = 65

\* the cells an erase sequence is to blank, with the cursor at (row, col)
EraseRange(action, mode, row, col) ==
    {rc \in AllCells(inner) :
        /\ action = "K" => rc[1] = row
        /\ CASE mode = 0 -> rc[1] > row \/ (rc[1] = row /\ rc[2] >= col)
             [] mode = 1 -> rc[1] < row \/ (rc[1] = row /\ rc[2] <= col)
             [] OTHER -> TRUE}
\* C26 (as claimed): from every reachable cursor state ESC[nJ and ESC[nK,
\* n = 0, 1, 2, blank the cells of their range, leave every other cell as it
\* was and leave the cursor where it was.
EraseExactStep ==
    csi_last'.action \in {"J", "K"} =>
        LET range == EraseRange(csi_last'.action, csi_last'.params[1],
                                inner.row, inner.col)
        IN  /\ con_panic' = {}
            /\ inner'.row = inner.row
            /\ inner'.col = inner.col
            /\ \A rc \in AllCells(inner) :
                    IF rc \in range
                    THEN fb'[CellIndex(inner, rc[1], rc[2])].g = 32
                    ELSE fb'[CellIndex(inner, rc[1], rc[2])]
                            = fb[CellIndex(inner, rc[1], rc[2])]
EraseExact == [][EraseExactStep]_vars

\* C27 (as claimed): ESC[nA, ESC[nB, ESC[nC and ESC[nD move the cursor by
\* max(n, 1) rows or columns in their direction, stop at the edge of the
\* screen, leave the cursor on the screen and leave the other axis as it was.
RelativeClampedStep ==
    csi_last'.action \in {"A", "B", "C", "D"} =>
        LET n == Max(csi_last'.params[1], 1)
            x == csi_last'.action
        IN  /\ 0 <= inner'.row /\ inner'.row < inner.height
            /\ 0 <= inner'.col /\ inner'.col < inner.width
            /\ x = "A" => inner'.row = Max(inner.row - n, 0)
            /\ x = "B" => inner'.row = Min(inner.row + n, inner.height - 1)
            /\ x = "C" => inner'.col = Min(inner.col + n, inner.width - 1)
            /\ x = "D" => inner'.col = Max(inner.col - n, 0)
            /\ x \in {"A", "B"} => inner'.col = inner.col
            /\ x \in {"C", "D"} => inner'.row = inner.row
RelativeClamped == [][RelativeClampedStep]_vars

\* C28 (as claimed): ESC[nG sets col to n-1, or to the last column when n-1
\* is beyond it, and leaves row as it was, also when the cursor is pending
\* at row = height.
ColumnAbsoluteStep ==
    csi_last'.action = "G" =>
        /\ inner'.col = Min(Max(csi_last'.params[1], 1) - 1, inner.width - 1)
        /\ inner'.row = inner.row
ColumnAbsoluteKeepsRow == [][ColumnAbsoluteStep]_vars

\* C29: change_mode with a text mode of w columns by h rows leaves
\* width = w, height = h, a space in every cell of the w x h grid and the
\* cursor at (0,0); change_mode with a mode without text geometry leaves the
\* console and the framebuffer as they were.
ChangeModeStep ==
    /\ mode_last'.kind = "text" =>
          /\ con_panic' = {}
          /\ inner'.width = mode_last'.width
          /\ inner'.height = mode_last'.height
          /\ \A rc \in AllCells(inner') :
                UnderOf(inner', fb', CellIndex(inner', rc[1], rc[2])).g = 32
          /\ inner'.row = 0
          /\ inner'.col = 0
    /\ mode_last'.kind = "graphics" =>
          /\ inner' = inner
          /\ fb' = fb
ChangeModeResets == [][ChangeModeStep]_vars
\* C29 witness: the mode with rows and columns exchanged was set on a
\* console showing its cursor, and the cursor is drawn at the origin of the
\* blank grid
ModeChangedUnderCursor ==
    /\ mode_last = [kind |-> "text", width |-> CurHeight, height |-> CurWidth]
    /\ inner.width = CurHeight
    /\ inner.height = CurWidth
    /\ inner.cursor_holder = 32
    /\ fb[0].g = 95
    /\ fb[1].g = 32

\* the kinds of slot a handle callback has no use for
Unfit(call) ==
    CASE call = "write" -> {"None", "Closed", "StdIn"}
      [] call = "read" -> {"None", "Closed", "Stdout", "StdErr"}
      [] call = "ioctl" -> {"None", "Closed", "StdIn", "Stdout", "StdErr", "File"}
      [] call = "close" -> {"None", "Closed"}
      [] OTHER -> {}
\* C30 (as claimed): api_write, api_read, api_ioctl and api_close called
\* with a handle whose slot is Closed, or holds a kind the callback does not
\* apply to, return BadHandle and leave the handle table as it was.
BadHandleStep ==
    api_last'.kind \in Unfit(api_last'.call) =>
        /\ api_last'.result = "BadHandle"
        /\ OPEN_HANDLES' = OPEN_HANDLES
BadHandleOnUnfitSlot == [][BadHandleStep]_vars

\* C31 as claimed: once the nine bytes '0', LF, '1' and six newlines were
\* written to the fresh 12 x 7 console, '0' is in no cell, '1' is in the
\* first cell of the top row and the cursor row equals height.
LinesScrolled ==
    /\ \A i \in DOMAIN fb : fb[i].g # 48
    /\ fb[0].g = 49
    /\ inner.row = inner.height
    /\ inner.col = 0
NineBytesScrolled == script_pos = 9 => LinesScrolled

\* C31 amended: the scroll that loses '0' and brings '1' to the top row is
\* done by the seventh newline after '1', the tenth byte, as in
\* tests::scroll; after nine bytes the cursor row equals height and nothing
\* has scrolled yet: '0' is on the top row and '1' on the second.
TenBytesScrolled ==
    /\ script_pos = 10 => LinesScrolled
    /\ script_pos = 9 =>
            /\ fb[0].g = 48
            /\ fb[inner.width].g = 49
            /\ inner.row = inner.height
    /\ con_pc # "panic"

\* ten bytes were written and the call that wrote the last returned
WroteTenBytes ==
    script_pos = 10 /\ con_pc = "idle" /\ fb[0].g = 49 /\ fb[inner.width].g = 0

\* C32: a backspace, from every reachable state (col == width after a glyph
\* in the last column included), takes 1 from col when col > 0 and leaves
\* col alone at 0; it never changes row, never scrolls and never modifies a
\* cell.
BackspaceStep ==
    Execute(8) =>
        /\ inner'.col = (IF inner.col > 0 THEN inner.col - 1 ELSE inner.col)
        /\ inner'.row = inner.row
        /\ con_scrolls' = 0
        /\ fb' = fb
BackspaceOnlyMovesLeft == [][BackspaceStep]_vars

\* C33: from every state with row < height and col in 0..width (col ==
\* width after a glyph in the last column included), a line feed leaves
\* col = 0 and row one more than before, and a carriage return leaves
\* col = 0 and row as before.
LineFeedStep ==
    /\ (Execute(10) /\ inner.row < inner.height) =>
            (inner'.col = 0 /\ inner'.row = inner.row + 1)
    /\ (Execute(13) /\ inner.row < inner.height) =>
            (inner'.col = 0 /\ inner'.row = inner.row)
LineFeedOneLine == [][LineFeedStep]_vars

\* C34: scroll_page, whatever the foreground, background and reverse video
\* in force, leaves in every row but the last the glyphs and attributes
\* the row below held, and fills the last row with spaces in the default
\* attribute.  A line feed that scrolls writes no other cell.
BlankDefault == [g |-> 32, a |-> as_u8(DEFAULT_ATTR)]
ScrollPageStep ==
    (con_op' = "execute" /\ con_scrolls' = 1) =>
        /\ \A i \in 0..(inner.width * (inner.height - 1) - 1) :
                fb'[i] = fb[i + inner.width]
        /\ \A col \in 0..(inner.width - 1) :
                fb'[CellIndex(inner, inner.height - 1, col)] = BlankDefault
ScrollPageShiftsAndBlanks == [][ScrollPageStep]_vars

\* C35: bright is a modifier on top of the base colour: after ESC[1m and
\* then ESC[22m, with no colour code in between or after, the next
\* character printed has the foreground colour of the character printed
\* before ESC[1m.
BoldThenNormalKeepsForeground ==
    script_pos = 4 => fb[1].a % 16 = fb[0].a % 16

\* C36: the cursor glyph is realized only at batch boundaries.  After every
\* completed write_bstr / write_str / clear the cell at the cursor shows
\* '_' if and only if cursor_wanted is set and the cursor is on the screen;
\* while the bytes of a batch are parsed, also after ESC[?25h, no cell of
\* the screen holds the cursor glyph.
CursorGlyphAt(i) == fb[i].g = 95
CursorGlyphAtBoundaries ==
    /\ (con_pc = "idle" /\ con_op \in {"end", "clear"}) =>
            ((OnScreen(inner) /\ CursorGlyphAt(CellIndex(inner, inner.row, inner.col)))
                <=> (inner.cursor_wanted /\ OnScreen(inner)))
    /\ con_pc = "batch" =>
            \A i \in 0..(inner.width * inner.height - 1) : ~CursorGlyphAt(i)

\* inside a batch, right after ESC[?25h, with the cursor on the screen
CursorWantedInsideBatch ==
    /\ con_pc = "batch"
    /\ con_op = "csi"
    /\ inner.cursor_wanted
    /\ OnScreen(inner)
    /\ fb[0].g = 65

\* C37: no byte sequence fed to write_bstr trips a geometry assertion:
\* every cell access has 0 <= row < height and 0 <= col < width, and
\* row <= height holds in scroll_as_required, also for the erase sequences
\* issued while the cursor is pending at col == width or row == height.
NoGeometryAssertion == "geometry" \notin con_panic

\* C38: execute() holds no CsRefCell guard while the program runs, no
\* callback locks a cell its own call chain already holds, so every lock()
\* reached from a callback succeeds, and every guard is dropped by the time
\* the callback returns.
LocksNeverFail ==
    /\ lock_chain.pc # "panic"
    /\ (tpa_pc = "running" /\ lock_chain.plan = <<>>) => lock_chain.held = <<>>
    /\ \A i, j \in DOMAIN lock_chain.held :
            i # j => lock_chain.held[i] # lock_chain.held[j]

\* api_write to Stdout holds three guards at once
WriteHoldsThreeGuards ==
    /\ lock_chain.call = "api_write"
    /\ lock_chain.held = <<"OPEN_HANDLES", "VGA_CONSOLE", "SERIAL_CONSOLE">>

\* C39: an api_open whose target opens stores the new entry in the
\* lowest-indexed Closed slot and returns that index, changing no other
\* slot; when none of the 8 slots is Closed it returns OutOfMemory and
\* leaves the table as it was; at most 8 handles are open at once.
Opened(t) == IF t = "AUDIO:" THEN "Audio" ELSE "File"
OpenAllocatesStep ==
    (api_last'.call = "open" /\ api_last'.kind \in {"AUDIO:", "file"}) =>
        IF \E i \in 0..(NumHandles - 1) : OPEN_HANDLES[i] = "Closed"
        THEN /\ api_last'.result = "Ok"
             /\ api_last'.fd \in 0..(NumHandles - 1)
             /\ OPEN_HANDLES[api_last'.fd] = "Closed"
             /\ \A j \in 0..(api_last'.fd - 1) : OPEN_HANDLES[j] # "Closed"
             /\ OPEN_HANDLES'[api_last'.fd] = Opened(api_last'.kind)
             /\ \A j \in 0..(NumHandles - 1) :
                    j # api_last'.fd => OPEN_HANDLES'[j] = OPEN_HANDLES[j]
        ELSE /\ api_last'.result = "OutOfMemory"
             /\ OPEN_HANDLES' = OPEN_HANDLES
AtMostEightOpen ==
    /\ DOMAIN OPEN_HANDLES = 0..7
    /\ \A i \in DOMAIN OPEN_HANDLES : OPEN_HANDLES[i] \in OpenHandle
OpenAllocatesLowestSlot == []AtMostEightOpen /\ [][OpenAllocatesStep]_vars

\* the open that refilled slot 3 while slot 4 was still open
OpenRefilledHole ==
    /\ api_last.call = "open"
    /\ api_last.result = "Ok"
    /\ api_last.fd = 3
    /\ OPEN_HANDLES[4] = "Audio"

\* C40: every read through the caching source that returns Ok has filled
\* the whole out_buffer with the bytes the file holds at
\* [offset, offset + len), as an uncached read of the same range does.
CachedReadIsUncachedRead ==
    (read_last.call = "read" /\ read_last.result = "Ok") =>
        read_last.out = uncached_read(read_last.offset, read_last.len)

====
